---- MODULE Spec2Model ----
(***************************************************************************)
(* Model of pyon's CouchPyonDataStore (pyon/datastore/couchdb/datastore.py)*)
(* and of the view definitions it queries (pyon/datastore/couchbase/       *)
(* views.py).                                                              *)
(*                                                                         *)
(* Strings that take part in view keys (document ids, type names,          *)
(* predicate names, resource names, lifecycle states) are modelled by      *)
(* their rank in the store's collation order, i.e. by integers; a view key *)
(* is a sequence of such ranks and keys compare as CouchDB compares JSON   *)
(* arrays.  A view whose map function emits a scalar key (by_id, by_bulk,  *)
(* by_subject_bulk) is modelled with the one-element sequence of it.       *)
(***************************************************************************)
EXTENDS Integers, Sequences, FiniteSets, TLC

VARIABLES store, call, ret, pc, found

vars == <<store, call, ret, pc, found>>

-----------------------------------------------------------------------------
(* Bounds of the model *)

NumRes == 2         \* resource document ids 1..NumRes
MaxAssoc == 2       \* association document ids NumRes+1..NumRes+MaxAssoc
NumFindRes == 3     \* resource document ids 1..NumFindRes of the resource finds
NumNames == 3       \* resource names 0..NumNames-1
LongForms == 2      \* names sharing one 200-character prefix
NumLcStates == 1    \* lifecycle states other than RETIRED
MaxSeeds == 2       \* length of the id lists given to the bulk lookups
NumCallers == 2     \* concurrent callers of the interleaved specification
NumAvail == 2       \* availability states
NumNamespaces == 2  \* namespaces of alternative ids
NumAltValues == 1   \* values of alternative ids
MaxAltIds == 1      \* alternative ids of one resource
NumScalars == 2     \* scalar values of raw query results
MaxRows == 2        \* rows of one raw query result, elements of one raw list

ResIds == 1..NumRes
AssocIds == (NumRes + 1)..(NumRes + MaxAssoc)
FindResIds == 1..NumFindRes
DocIds == ResIds \cup AssocIds \cup FindResIds
Callers == 1..NumCallers

-----------------------------------------------------------------------------
(* Static metadata: types, predicates *)

\* doc.type_ of an Association document; resource types are 1..3
Association == 0

\* Resource types: 1 is a base type, 2 extends 1, 3 extends 2.
Types == {1, 2, 3}

\* direct extension: <<child, parent>>
Extends == {<<2, 1>>, <<3, 2>>}

RECURSIVE Descendants(_, _)
Descendants(t, fuel) ==
    IF fuel = 0 THEN {}
    ELSE LET kids == {e[1] : e \in {x \in Extends : x[2] = t}}
         IN  kids \cup UNION {Descendants(k, fuel - 1) : k \in kids}

\* getextends(t): the types that extend t, directly or through other types
getextends(t) == Descendants(t, Cardinality(Types))

\* Predicates: name -> domain and range.  Predicate names are 1..2.
Predicates == [p \in {1, 2} |->
                 IF p = 1 THEN [domain |-> {2}, range |-> {1}]
                          ELSE [domain |-> {1}, range |-> {2}]]

PredNames == DOMAIN Predicates

\* lcstate 'RETIRED'; the other lifecycle states are 2..NumLcStates+1
RETIRED == 1
LcStates == 1..(NumLcStates + 1)

\* Resource names.  Name n is longer than 200 characters iff n % LongForms # 0,
\* and the names n - (n % LongForms) .. + LongForms - 1 share their first 200
\* characters, which are the whole of the first one.
Names == 0..(NumNames - 1)

\* String(doc.name).substring(0,200)
substring200(n) == n - (n % LongForms)

\* CommonResourceLifeCycleSM.AVAILABILITY: the availability states, 11, 12, ...
AVAILABILITY == {10 + i : i \in 1..NumAvail}

\* the compound state string maturity + "_" + availability
Compound(m, a) == 100 * m + a

\* '_' in lcstate
has_underscore(lcstate) == lcstate >= 100

\* lcstate.split("_", 1)[0]
split_first(lcstate) == lcstate \div 100

\* An alternative id is the sequence of the parts altid.split(":") gives:
\* <<namespace, value>> for "namespace:value", <<value>> for a bare value.
Namespaces == 1..NumNamespaces
AltValues == 1..NumAltValues
AltIds == {<<ns, v>> : ns \in Namespaces, v \in AltValues}
              \cup {<<v>> : v \in AltValues}

\* the namespace "_" of the index entries of alt ids without a namespace
UNDERSCORE == 90

\* the namespace "UIREFID" of the index entries of doc.uirefid
UIREFID == 91

\* the resource type "UserInfo", the only one by_attribute indexes
UserInfo == 2

\* the attribute path "contact.email"
CONTACT_EMAIL == 1

\* the type of the nested contact objects
ContactInformation == 3

\* the string of an alt id that does not split into two parts, as a key
altid_string(parts) ==
    IF Len(parts) = 1 THEN parts[1]
    ELSE 500 + 100 * parts[1] + 10 * parts[2] + parts[3]

-----------------------------------------------------------------------------
(* Documents *)

Absent == [absent |-> TRUE]

None == [kind |-> "none"]

ResourceDoc(id, t, n, lc) ==
    [_id |-> id, type_ |-> t, name |-> n, lcstate |-> lc]

\* a resource document that also carries availability and alt_ids
ResourceDocExt(id, t, n, lc, av, alt_ids) ==
    [_id |-> id, type_ |-> t, name |-> n, lcstate |-> lc, availability |-> av,
     alt_ids |-> alt_ids]

\* a resource document that carries a uirefid and no alt_ids
ResourceDocUi(id, t, n, lc, av, uirefid) ==
    [_id |-> id, type_ |-> t, name |-> n, lcstate |-> lc, availability |-> av,
     uirefid |-> uirefid]

\* a resource document that carries both alt_ids and a uirefid
ResourceDocBoth(id, t, n, lc, av, alt_ids, uirefid) ==
    [_id |-> id, type_ |-> t, name |-> n, lcstate |-> lc, availability |-> av,
     alt_ids |-> alt_ids, uirefid |-> uirefid]

\* a resource document that also carries keywords and a nested object, its
\* contact, with a type and an email
ResourceDocFull(id, t, n, lc, av, alt_ids, keywords, contact) ==
    [_id |-> id, type_ |-> t, name |-> n, lcstate |-> lc, availability |-> av,
     alt_ids |-> alt_ids, keywords |-> keywords, contact |-> contact]

\* doc.f != undefined
Has(doc, f) == f \in DOMAIN doc

AssociationDoc(id, s, st, p, o, ot) ==
    [_id |-> id, type_ |-> Association, s |-> s, st |-> st, p |-> p,
     o |-> o, ot |-> ot, retired |-> FALSE]

Exists(st, id) == id \in DOMAIN st /\ st[id] # Absent

IsAssociation(doc) == doc # Absent /\ doc.type_ = Association

IsResource(doc) == doc # Absent /\ doc.type_ # Association

\* the documents of the store
Docs(st) == {st[id] : id \in {i \in DOMAIN st : st[i] # Absent}}

-----------------------------------------------------------------------------
(* The store's view queries: collation, rows, range and multi-key lookups *)

Min(a, b) == IF a < b THEN a ELSE b

\* the first position at which two keys differ; 0 when there is none
FirstDiff(a, b) ==
    IF \E i \in 1..Min(Len(a), Len(b)) : a[i] # b[i]
    THEN CHOOSE i \in 1..Min(Len(a), Len(b)) :
             a[i] # b[i] /\ \A k \in 1..(i - 1) : a[k] = b[k]
    ELSE 0

\* two keys that first differ at position i (0: one is a prefix of the other,
\* the shorter sorts first): -1, 0, 1
Collate(a, b, i) ==
    IF i # 0 THEN (IF a[i] < b[i] THEN -1 ELSE 1)
    ELSE IF Len(a) < Len(b) THEN -1
    ELSE IF Len(a) > Len(b) THEN 1
    ELSE 0

\* CouchDB collation of two array keys: elements compare pairwise
KeyCmp(a, b) == Collate(a, b, FirstDiff(a, b))

\* Rows of a view are ordered by key, then by document id (then by the order
\* of the emits of one document).
RowLeq(r1, r2) ==
    \E c \in {KeyCmp(r1.key, r2.key)} :
        \/ c < 0
        \/ c = 0 /\ r1.id < r2.id
        \/ c = 0 /\ r1.id = r2.id /\ r1.n <= r2.n

RECURSIVE SortRows(_)
SortRows(S) ==
    IF S = {} THEN <<>>
    ELSE LET m == CHOOSE x \in S : \A y \in S : RowLeq(x, y)
         IN  <<m>> \o SortRows(S \ {m})

\* One emit(key, value) of a map function; n numbers the emits of one document.
Emit(n, key, value) == [n |-> n, key |-> key, value |-> value]

\* view[key:endkey]: the rows with key <= row.key <= endkey
Range(rows, key, endkey) ==
    LET Keep(r) == KeyCmp(key, r.key) <= 0 /\ KeyCmp(r.key, endkey) <= 0
    IN  SelectSeq(rows, Keep)

RECURSIVE Keys(_, _)
\* ds.view(name, keys=ks): for every key of ks, in the order of ks, the rows
\* with exactly that key
Keys(rows, ks) ==
    IF ks = <<>> THEN <<>>
    ELSE LET Keep(r) == r.key = Head(ks)
         IN  SelectSeq(rows, Keep) \o Keys(rows, Tail(ks))

\* The maximal sentinel of the range scans' end keys
END_MARKER == 1000

\* an end key that repeats the last component of the start key
_get_endkey_repeat(key) == IF key = <<>> THEN <<>> ELSE Append(key, key[Len(key)])

\* self._get_endkey(key)
_get_endkey(key) == Append(key, END_MARKER)

Elems(seq) == {seq[i] : i \in 1..Len(seq)}

-----------------------------------------------------------------------------
(* View definitions (COUCHDB_VIEWS) *)

Live(doc) == IsAssociation(doc) /\ ~doc.retired

\* by_type without the test of the lifecycle state
by_type_with_retired(doc) ==
    IF IsResource(doc)
    THEN {Emit(1, <<doc.type_, substring200(doc.name)>>, None)}
    ELSE {}

\* resource.by_type
by_type(doc) ==
    IF IsResource(doc) /\ doc.lcstate # RETIRED
    THEN {Emit(1, <<doc.type_, substring200(doc.name)>>, None)}
    ELSE {}

\* by_name with the name cut as by_type cuts it
by_name_truncated(doc) ==
    IF IsResource(doc) /\ doc.lcstate # RETIRED
    THEN {Emit(1, <<substring200(doc.name), doc.type_>>, None)}
    ELSE {}

\* resource.by_name
by_name(doc) ==
    IF IsResource(doc) /\ doc.lcstate # RETIRED
    THEN {Emit(1, <<doc.name, doc.type_>>, None)}
    ELSE {}

\* by_sub keyed by the object
by_sub_object_first(doc) ==
    IF Live(doc) THEN {Emit(1, <<doc.o, doc.p, doc.ot, doc.s>>, doc)} ELSE {}

\* association.by_sub
by_sub(doc) ==
    IF Live(doc) THEN {Emit(1, <<doc.s, doc.p, doc.ot, doc.o>>, doc)} ELSE {}

\* association.by_obj
by_obj(doc) ==
    IF Live(doc) THEN {Emit(1, <<doc.o, doc.p, doc.st, doc.s>>, doc)} ELSE {}

\* by_match with subject and object exchanged in the key
by_match_object_first(doc) ==
    IF Live(doc) THEN {Emit(1, <<doc.o, doc.s, doc.p>>, doc)} ELSE {}

\* a by_match that also lists retired associations
by_match_with_retired(doc) ==
    IF IsAssociation(doc)
    THEN {Emit(1, <<doc.s, doc.o, doc.p>>, doc)}
    ELSE {}

\* association.by_match
by_match(doc) ==
    IF Live(doc) THEN {Emit(1, <<doc.s, doc.o, doc.p>>, doc)} ELSE {}

\* association.by_idpred
by_idpred(doc) ==
    IF Live(doc)
    THEN {Emit(1, <<doc.s, doc.p>>, doc), Emit(2, <<doc.o, doc.p>>, doc)}
    ELSE {}

\* by_id without the emit for the object
by_id_subject_only(doc) ==
    IF Live(doc) THEN {Emit(1, <<doc.s>>, doc)} ELSE {}

\* association.by_id
by_id(doc) ==
    IF Live(doc)
    THEN {Emit(1, <<doc.s>>, doc), Emit(2, <<doc.o>>, doc)}
    ELSE {}

\* association.by_pred
by_pred(doc) ==
    IF Live(doc) THEN {Emit(1, <<doc.p, doc.s, doc.o>>, doc)} ELSE {}

\* by_bulk keyed by the object
by_bulk_object_key(doc) ==
    IF Live(doc) THEN {Emit(1, <<doc.o>>, doc.o)} ELSE {}

\* association.by_bulk
by_bulk(doc) ==
    IF Live(doc) THEN {Emit(1, <<doc.s>>, doc.o)} ELSE {}

\* association.by_subject_bulk
by_subject_bulk(doc) ==
    IF Live(doc) THEN {Emit(1, <<doc.o>>, doc.s)} ELSE {}

\* resource.by_lcstate: one entry for the maturity (axis 0), one for the
\* availability (axis 1)
by_lcstate(doc) ==
    IF IsResource(doc) /\ Has(doc, "lcstate") /\ Has(doc, "availability")
       /\ Has(doc, "name")
    THEN {Emit(1, <<0, doc.lcstate, doc.type_, substring200(doc.name)>>, None),
          Emit(2, <<1, doc.availability, doc.type_, substring200(doc.name)>>, None)}
    ELSE {}

\* a key that puts the namespace before the value
altid_key_namespace_first(parts) ==
    IF Len(parts) = 2 THEN <<parts[1], parts[2]>>
    ELSE <<altid_string(parts), UNDERSCORE>>

\* the entry of one alt id: [value, namespace] when it splits into two parts,
\* [altid, "_"] otherwise
altid_key(parts) ==
    IF Len(parts) = 2 THEN <<parts[2], parts[1]>>
    ELSE <<altid_string(parts), UNDERSCORE>>

\* resource.by_altid
by_altid(doc) ==
    IF IsResource(doc) /\ Has(doc, "alt_ids") /\ doc.lcstate # RETIRED
    THEN {Emit(i, altid_key(doc.alt_ids[i]), None) : i \in DOMAIN doc.alt_ids}
    ELSE IF IsResource(doc) /\ Has(doc, "uirefid") /\ doc.lcstate # RETIRED
    THEN {Emit(1, <<doc.uirefid, UIREFID>>, None)}
    ELSE {}

\* resource.by_keyword: one entry per keyword of the document
by_keyword(doc) ==
    IF IsResource(doc) /\ doc.lcstate # RETIRED /\ Has(doc, "keywords")
    THEN {Emit(i, <<doc.keywords[i], doc.type_>>, None) : i \in DOMAIN doc.keywords}
    ELSE {}

\* resource.by_nestedtype: one entry per attribute that holds an object with
\* a type; the documents have one such attribute, contact
by_nestedtype(doc) ==
    IF IsResource(doc) /\ doc.lcstate # RETIRED /\ Has(doc, "contact")
       /\ Has(doc.contact, "type_")
    THEN {Emit(1, <<doc.contact.type_, doc.type_>>, None)}
    ELSE {}

\* resource.by_attribute: the email of the contact of a UserInfo
by_attribute(doc) ==
    IF IsResource(doc) /\ doc.lcstate # RETIRED /\ doc.type_ = UserInfo
       /\ Has(doc, "contact") /\ Has(doc.contact, "email")
    THEN {Emit(1, <<doc.type_, CONTACT_EMAIL, doc.contact.email>>, None)}
    ELSE {}

\* the map function of the view of a name
COUCHDB_VIEWS(view_name, doc) ==
    CASE view_name = "by_type" -> by_type(doc)
      [] view_name = "by_name" -> by_name(doc)
      [] view_name = "by_sub" -> by_sub(doc)
      [] view_name = "by_obj" -> by_obj(doc)
      [] view_name = "by_match" -> by_match(doc)
      [] view_name = "by_idpred" -> by_idpred(doc)
      [] view_name = "by_id" -> by_id(doc)
      [] view_name = "by_pred" -> by_pred(doc)
      [] view_name = "by_bulk" -> by_bulk(doc)
      [] view_name = "by_subject_bulk" -> by_subject_bulk(doc)
      [] view_name = "by_lcstate" -> by_lcstate(doc)
      [] view_name = "by_altid" -> by_altid(doc)
      [] view_name = "by_keyword" -> by_keyword(doc)
      [] view_name = "by_nestedtype" -> by_nestedtype(doc)
      [] view_name = "by_attribute" -> by_attribute(doc)

\* ds.view(view_name): the rows the view's map emits over the documents of the
\* store, in index order
View(view_name, st) ==
    SortRows(UNION {{[id |-> d._id, n |-> e.n, key |-> e.key, value |-> e.value,
                      doc |-> d] : e \in COUCHDB_VIEWS(view_name, d)} : d \in Docs(st)})

-----------------------------------------------------------------------------
(* Python values of the arguments and results *)

\* None, or the empty string, of a scalar argument (predicate, type, limit)
Nil == 0

\* a document id given as a str
Str(id) == [kind |-> "str", id |-> id]

\* an IonObject; has_id / has_rev: '_id' in obj, '_rev' in obj
Obj(id, t, has_id, has_rev) ==
    [kind |-> "obj", _id |-> id, type_ |-> t, has_id |-> has_id, has_rev |-> has_rev]

\* a list of document ids
List(ids) == [kind |-> "list", ids |-> ids]

\* a list of (document id, predicate) pairs
Pairs(ps) == [kind |-> "pairs", ids |-> ps]

\* a 3-list [subject, predicate, object]
Triple(s, p, o) == [kind |-> "triple", subject |-> s, predicate |-> p, obj |-> o]

PyTrue == [kind |-> "bool", val |-> TRUE]

\* Python truthiness of an argument
Truthy(v) ==
    CASE v.kind = "none" -> FALSE
      [] v.kind = "bool" -> v.val
      [] v.kind \in {"list", "pairs"} -> v.ids # <<>>
      [] OTHER -> TRUE

\* the object read(id) returns for a stored document
ObjOf(doc) == Obj(doc._id, doc.type_, TRUE, TRUE)

Ok(v) == [status |-> "ok", val |-> v]
Raise(e) == [status |-> e]

Take(seq, n) == IF n = Nil \/ Len(seq) <= n THEN seq ELSE SubSeq(seq, 1, n)

\* self._persistence_dict_to_ion_object(obj_dict): the deserializer keeps
\* the fields of the document
_persistence_dict_to_ion_object(obj_dict) == obj_dict

row_id(row) == row.id
row_value(row) == row.value
row_doc(row) == row.doc

-----------------------------------------------------------------------------
(* find_associations *)

find_associations_rows(st, subject, predicate, obj, anyside, limit) ==
    LET subject_id == IF subject.kind = "str" THEN subject.id ELSE subject._id
        object_id == IF obj.kind = "str" THEN obj.id ELSE obj._id
        anyside_ids == CASE anyside.kind = "str" -> <<anyside.id>>
                         [] anyside.kind \in {"list", "pairs"} -> anyside.ids
                         [] OTHER -> <<anyside._id>>
        rows ==
          IF Truthy(subject) /\ Truthy(obj)
          THEN LET key == IF predicate # Nil
                          THEN <<subject_id, object_id, predicate>>
                          ELSE <<subject_id, object_id>>
               IN  Range(View("by_match", st), key, _get_endkey(key))
          ELSE IF Truthy(subject)
          THEN LET key == IF predicate # Nil THEN <<subject_id, predicate>>
                          ELSE <<subject_id>>
               IN  Range(View("by_sub", st), key, _get_endkey(key))
          ELSE IF Truthy(obj)
          THEN LET key == IF predicate # Nil THEN <<object_id, predicate>>
                          ELSE <<object_id>>
               IN  Range(View("by_obj", st), key, _get_endkey(key))
          ELSE IF Truthy(anyside)
          THEN IF predicate # Nil
               THEN LET key == <<anyside.id, predicate>>
                    IN  Range(View("by_idpred", st), key, _get_endkey(key))
               ELSE IF anyside.kind # "pairs"
               THEN Keys(View("by_id", st), [k \in DOMAIN anyside_ids |-> <<anyside_ids[k]>>])
               ELSE Keys(View("by_idpred", st), anyside_ids)
          ELSE LET key == <<predicate>>
               IN  Range(View("by_pred", st), key, _get_endkey(key))
    IN  Take(rows, limit)

\* the associations of the rows found: their ids, or the deserialized values
find_associations_return(rows, id_only) ==
    IF id_only
    THEN Ok([k \in DOMAIN rows |-> row_id(rows[k])])
    ELSE Ok([k \in DOMAIN rows |-> _persistence_dict_to_ion_object(row_value(rows[k]))])

\* find_associations with the check of anyside against subject and object
\* left out
find_associations_args_lenient(subject, predicate, obj, anyside) ==
    IF ~(Truthy(subject) \/ Truthy(obj) \/ predicate # Nil \/ Truthy(anyside))
    THEN Raise("BadRequest")
    ELSE IF Truthy(anyside) /\ predicate # Nil /\ anyside.kind \in {"list", "pairs"}
    THEN Raise("BadRequest")
    ELSE IF Truthy(subject) /\ subject.kind = "obj" /\ ~subject.has_id
    THEN Raise("BadRequest")
    ELSE IF Truthy(obj) /\ obj.kind = "obj" /\ ~obj.has_id
    THEN Raise("BadRequest")
    ELSE Ok(None)

\* the checks of find_associations on its arguments, made before the view is
\* chosen
find_associations_args(subject, predicate, obj, anyside) ==
    IF ~(Truthy(subject) \/ Truthy(obj) \/ predicate # Nil \/ Truthy(anyside))
    THEN Raise("BadRequest")
    ELSE IF Truthy(anyside) /\ (Truthy(subject) \/ Truthy(obj))
    THEN Raise("BadRequest")
    ELSE IF Truthy(anyside) /\ predicate # Nil /\ anyside.kind \in {"list", "pairs"}
    THEN Raise("BadRequest")
    ELSE IF Truthy(subject) /\ subject.kind = "obj" /\ ~subject.has_id
    THEN Raise("BadRequest")
    ELSE IF Truthy(obj) /\ obj.kind = "obj" /\ ~obj.has_id
    THEN Raise("BadRequest")
    ELSE IF Truthy(anyside) /\ anyside.kind = "obj" /\ ~anyside.has_id
    THEN Raise("BadRequest")
    ELSE IF ~Truthy(subject) /\ ~Truthy(obj) /\ Truthy(anyside)
            /\ predicate # Nil /\ anyside.kind = "obj"
    THEN Raise("TypeError")   \* the key [anyside, predicate] holds the object
    ELSE Ok(None)

\* the number of view queries find_associations sends: one, by the branch
\* taken, once the arguments passed the checks
find_associations_queries(subject, predicate, obj, anyside) ==
    IF find_associations_args(subject, predicate, obj, anyside).status # "ok"
    THEN 0 ELSE 1

\* find_associations(subject, predicate, obj, id_only, anyside, limit)
find_associations(st, subject, predicate, obj, id_only, anyside, limit) ==
    IF find_associations_args(subject, predicate, obj, anyside).status # "ok"
    THEN find_associations_args(subject, predicate, obj, anyside)
    ELSE find_associations_return(
             find_associations_rows(st, subject, predicate, obj, anyside, limit),
             id_only)

\* if assoc_ids: return True; return False
_is_in_association_return(assoc_ids) ==
    IF assoc_ids.status # "ok" THEN Raise(assoc_ids.status)
    ELSE Ok(assoc_ids.val # <<>>)

\* _is_in_association(obj_id)
_is_in_association(st, obj_id) ==
    IF obj_id = Nil THEN Raise("BadRequest")
    ELSE _is_in_association_return(
             find_associations(st, None, Nil, None, TRUE, Str(obj_id), 1))

-----------------------------------------------------------------------------
(* Document operations.  A mutating operation yields                       *)
(* [status, store, val]: its outcome, the store it leaves and its return   *)
(* value.                                                                  *)

Done(st, v) == [status |-> "ok", store |-> st, val |-> v]
Fail(st, e) == [status |-> e, store |-> st, val |-> None]

\* create(obj, object_id): create_doc refuses an id that is in use
create(st, doc) ==
    IF Exists(st, doc._id) THEN Fail(st, "BadRequest")
    ELSE Done([st EXCEPT ![doc._id] = doc], Str(doc._id))

\* update(obj) of a stored document
update(st, doc) ==
    IF ~Exists(st, doc._id) THEN Fail(st, "NotFound")
    ELSE Done([st EXCEPT ![doc._id] = doc], Str(doc._id))

\* read(object_id)
read(st, object_id) ==
    IF Exists(st, object_id) THEN Ok(ObjOf(st[object_id])) ELSE Raise("NotFound")

\* delete_doc_mult(object_ids): the listed documents are removed
delete_doc_mult(st, object_ids) ==
    [id \in DOMAIN st |-> IF id \in Elems(object_ids) THEN Absent ELSE st[id]]

\* CouchDataStore.delete_doc(doc): the store's delete by id
super_delete_doc(st, doc_id) ==
    IF Exists(st, doc_id) THEN Done([st EXCEPT ![doc_id] = Absent], None)
    ELSE Fail(st, "NotFound")

\* the association ids delete_doc finds for its cascade
delete_doc_assoc_ids(st, doc_id) ==
    find_associations(st, None, Nil, None, TRUE, Str(doc_id), Nil)

\* delete_doc with del_associations: the associations found are removed, then
\* the document
delete_doc_cascade(st, doc_id, assoc_ids) ==
    IF assoc_ids.status # "ok" THEN Fail(st, assoc_ids.status)
    ELSE super_delete_doc(delete_doc_mult(st, assoc_ids.val), doc_id)

\* a delete_doc that refuses a document still in an association
delete_doc_refuse(st, doc_id, in_association) ==
    IF in_association.status # "ok" THEN Fail(st, in_association.status)
    ELSE IF in_association.val THEN Fail(st, "BadRequest")
    ELSE super_delete_doc(st, doc_id)

\* delete_doc without del_associations: a warning is logged when the document
\* is in an association, and the document is removed
delete_doc_warn(st, doc_id, in_association) ==
    IF in_association.status # "ok" THEN Fail(st, in_association.status)
    ELSE super_delete_doc(st, doc_id)

\* doc if type(doc) is str else doc["_id"]
doc_id_of(doc) == IF doc.kind = "str" THEN doc.id ELSE doc._id

\* delete_doc(doc, del_associations); returns None
delete_doc(st, doc, del_associations) ==
    IF del_associations
    THEN delete_doc_cascade(st, doc_id_of(doc),
                            delete_doc_assoc_ids(st, doc_id_of(doc)))
    ELSE delete_doc_warn(st, doc_id_of(doc),
                         _is_in_association(st, doc_id_of(doc)))

\* delete(obj, del_associations); returns None
delete(st, obj, del_associations) ==
    IF \/ obj.kind \notin {"obj", "str"}
       \/ obj.kind = "obj" /\ (~obj.has_id \/ ~obj.has_rev)
    THEN Fail(st, "BadRequest")
    ELSE delete_doc(st, obj, del_associations)

\* the bulk delete of the store when the deletes of the ids in failing fail:
\* the other documents are removed and one outcome per id is returned
delete_doc_mult_outcomes(st, object_ids, failing) ==
    Done([id \in DOMAIN st |->
             IF id \in Elems(object_ids) \ failing THEN Absent ELSE st[id]],
         [k \in DOMAIN object_ids |->
             [id |-> object_ids[k], success |-> object_ids[k] \notin failing]])

\* delete_mult(object_ids): return self.delete_doc_mult(object_ids)
delete_mult(st, object_ids, failing) ==
    delete_doc_mult_outcomes(st, object_ids, failing)

\* delete_doc with del_associations, second statement:
\* self.delete_doc_mult(assoc_ids); what the bulk delete returns is dropped
delete_doc_cascade_bulk(st, assoc_ids, failing) ==
    Done(delete_doc_mult_outcomes(st, assoc_ids, failing).store, None)

-----------------------------------------------------------------------------
(* Association operations *)

\* membership in the declared set only
type_permitted_declared_only(t, allowed) == t \in allowed

\* the type is in the allowed set or in getextends of a member of it
type_permitted(t, allowed) ==
    t \in allowed \/ \E a \in allowed : t \in getextends(a)

\* the duplicate check of create_association: the fields of the Association to
\* persist, or the error raised
create_association_duplicate(assoc_list, subject, predicate, obj) ==
    IF assoc_list.status # "ok" THEN Raise(assoc_list.status)
    ELSE IF Len(assoc_list.val) # 0 THEN Raise("BadRequest")
    ELSE Ok([s |-> subject._id, st |-> subject.type_, p |-> predicate,
             o |-> obj._id, ot |-> obj.type_])

\* the type check of create_association, and the duplicate check after it
create_association_types(st, subject, predicate, obj) ==
    IF predicate \notin DOMAIN Predicates THEN Raise("BadRequest")
    ELSE IF ~type_permitted(subject.type_, Predicates[predicate].domain)
    THEN Raise("BadRequest")
    ELSE IF ~type_permitted(obj.type_, Predicates[predicate].range)
    THEN Raise("BadRequest")
    ELSE create_association_duplicate(
             find_associations(st, subject, predicate, obj, FALSE, None, Nil),
             subject, predicate, obj)

\* a create_association that asks a document for its id and not its revision
create_association_objects_by_id(st, sub, predicate, ob) ==
    IF sub.status # "ok" THEN Raise(sub.status)
    ELSE IF ~sub.val.has_id THEN Raise("BadRequest")
    ELSE IF ob.status # "ok" THEN Raise(ob.status)
    ELSE IF ~ob.val.has_id THEN Raise("BadRequest")
    ELSE create_association_types(st, sub.val, predicate, ob.val)

\* create_association once subject and object are read (sub, ob: the outcome
\* of read for an id, the argument itself for an object)
create_association_objects(st, sub, predicate, ob) ==
    IF sub.status # "ok" THEN Raise(sub.status)
    ELSE IF ~sub.val.has_id \/ ~sub.val.has_rev THEN Raise("BadRequest")
    ELSE IF ob.status # "ok" THEN Raise(ob.status)
    ELSE IF ~ob.val.has_id \/ ~ob.val.has_rev THEN Raise("BadRequest")
    ELSE create_association_types(st, sub.val, predicate, ob.val)

\* create_association up to and including the duplicate check
create_association_check(st, subject, predicate, obj) ==
    IF ~(Truthy(subject) /\ predicate # Nil /\ Truthy(obj))
    THEN Raise("BadRequest")
    ELSE create_association_objects(
             st,
             IF subject.kind = "str" THEN read(st, subject.id) ELSE Ok(subject),
             predicate,
             IF obj.kind = "str" THEN read(st, obj.id) ELSE Ok(obj))

\* a write that looks for the triple again and refuses a second association
create_association_write_rechecked(st, a, id) ==
    IF \E k \in DOMAIN st : /\ IsAssociation(st[k]) /\ ~st[k].retired
                             /\ st[k].s = a.s /\ st[k].p = a.p /\ st[k].o = a.o
    THEN Fail(st, "BadRequest")
    ELSE create(st, AssociationDoc(id, a.s, a.st, a.p, a.o, a.ot))

\* the write that ends create_association: create(assoc, id)
create_association_write(st, a, id) ==
    create(st, AssociationDoc(id, a.s, a.st, a.p, a.o, a.ot))

\* create_association after its checks (c: their outcome)
create_association_checked(st, c, id) ==
    IF c.status # "ok" THEN Fail(st, c.status)
    ELSE create_association_write(st, c.val, id)

\* create_association(subject, predicate, obj); id is the value of
\* create_unique_association_id()
create_association(st, subject, predicate, obj, id) ==
    create_association_checked(
        st, create_association_check(st, subject, predicate, obj), id)

\* success and self.delete(aid)
and_delete(r, aid) ==
    IF r.status # "ok" \/ ~Truthy(r.val) THEN r
    ELSE delete(r.store, Str(aid), FALSE)

RECURSIVE delete_each(_, _)
\* for aid in assoc_id_list: success = success and self.delete(aid)
delete_each(r, assoc_id_list) ==
    IF assoc_id_list = <<>> THEN r
    ELSE delete_each(and_delete(r, Head(assoc_id_list)), Tail(assoc_id_list))

\* the loop of delete_association over the ids found
delete_association_ids(st, assoc_id_list) ==
    IF assoc_id_list.status # "ok" THEN Fail(st, assoc_id_list.status)
    ELSE delete_each(Done(st, PyTrue), assoc_id_list.val)

\* delete_association(association)
delete_association(st, association) ==
    IF association.kind = "triple"
    THEN delete_association_ids(
             st, find_associations(st, association.subject, association.predicate,
                                   association.obj, TRUE, None, Nil))
    ELSE delete(st, association, FALSE)

-----------------------------------------------------------------------------
(* One-hop traversal *)

\* read_mult(object_ids): the objects of the listed documents
read_mult(st, object_ids) ==
    IF \E i \in 1..Len(object_ids) : ~Exists(st, object_ids[i])
    THEN Raise("NotFound")
    ELSE Ok([k \in DOMAIN object_ids |-> ObjOf(st[object_ids[k]])])

\* what a find operation returns: (ids or objects, associations)
Found(st, ids, assocs, id_only) ==
    IF id_only THEN Ok([objs |-> ids, assocs |-> assocs])
    ELSE LET objs == read_mult(st, ids)
         IN  IF objs.status # "ok" THEN Raise(objs.status)
             ELSE Ok([objs |-> objs.val, assocs |-> assocs])

\* the key without the endpoint type
traversal_key_without_type(id, predicate, type) ==
    IF predicate # Nil THEN <<id, predicate>> ELSE <<id>>

\* the key find_objects and find_subjects scan from
traversal_key(id, predicate, type) ==
    IF predicate # Nil
    THEN IF type # Nil THEN <<id, predicate, type>> ELSE <<id, predicate>>
    ELSE <<id>>

\* find_objects with the check of the object type left out
find_objects_args_lenient(subject, predicate, object_type) ==
    IF ~Truthy(subject) THEN Raise("BadRequest")
    ELSE IF subject.kind = "obj" /\ ~subject.has_id THEN Raise("BadRequest")
    ELSE Ok(None)

\* the checks of find_objects on its arguments, made before the view is read
find_objects_args(subject, predicate, object_type) ==
    IF ~Truthy(subject) THEN Raise("BadRequest")
    ELSE IF object_type # Nil /\ predicate = Nil THEN Raise("BadRequest")
    ELSE IF subject.kind = "obj" /\ ~subject.has_id THEN Raise("BadRequest")
    ELSE Ok(None)

\* the number of view queries find_objects sends
find_objects_queries(subject, predicate, object_type) ==
    IF find_objects_args(subject, predicate, object_type).status # "ok" THEN 0 ELSE 1

\* find_objects(subject, predicate, object_type, id_only)
find_objects(st, subject, predicate, object_type, id_only) ==
    IF find_objects_args(subject, predicate, object_type).status # "ok"
    THEN Raise("BadRequest")
    ELSE LET subject_id == IF subject.kind = "str" THEN subject.id ELSE subject._id
             key == traversal_key(subject_id, predicate, object_type)
             rows == Range(View("by_sub", st), key, _get_endkey(key))
             obj_assocs == [k \in DOMAIN rows |-> _persistence_dict_to_ion_object(row_value(rows[k]))]
             obj_ids == [k \in DOMAIN obj_assocs |-> obj_assocs[k].o]
         IN  Found(st, obj_ids, obj_assocs, id_only)

\* the checks of find_subjects on its arguments, made before the view is read
find_subjects_args(subject_type, predicate, obj) ==
    IF ~Truthy(obj) THEN Raise("BadRequest")
    ELSE IF subject_type # Nil /\ predicate = Nil THEN Raise("BadRequest")
    ELSE IF obj.kind = "obj" /\ ~obj.has_id THEN Raise("BadRequest")
    ELSE Ok(None)

\* the number of view queries find_subjects sends
find_subjects_queries(subject_type, predicate, obj) ==
    IF find_subjects_args(subject_type, predicate, obj).status # "ok" THEN 0 ELSE 1

\* find_subjects(subject_type, predicate, obj, id_only)
find_subjects(st, subject_type, predicate, obj, id_only) ==
    IF find_subjects_args(subject_type, predicate, obj).status # "ok"
    THEN Raise("BadRequest")
    ELSE LET object_id == IF obj.kind = "str" THEN obj.id ELSE obj._id
             key == traversal_key(object_id, predicate, subject_type)
             rows == Range(View("by_obj", st), key, _get_endkey(key))
             sub_assocs == [k \in DOMAIN rows |-> _persistence_dict_to_ion_object(row_value(rows[k]))]
             sub_ids == [k \in DOMAIN sub_assocs |-> sub_assocs[k].s]
         IN  Found(st, sub_ids, sub_assocs, id_only)

\* query_view(view_name, dict(keys=keys, include_docs=True)): the rows of the
\* multi-key lookup, projected by _parse_results
query_view(st, view_name, keys) ==
    LET rows == Keys(View(view_name, st), [k \in DOMAIN keys |-> <<keys[k]>>])
    IN  [k \in DOMAIN rows |->
           [id |-> rows[k].id, key |-> rows[k].key, value |-> rows[k].value,
            doc |-> _persistence_dict_to_ion_object(row_doc(rows[k]))]]

\* find_objects_mult(subjects, id_only)
find_objects_mult(st, subjects, id_only) ==
    IF subjects.kind # "list" THEN Raise("BadRequest")
    ELSE LET results == query_view(st, "by_bulk", subjects.ids)
             ids == [k \in DOMAIN results |-> results[k].value]
             assocs == [k \in DOMAIN results |-> results[k].doc]
         IN  Found(st, ids, assocs, id_only)

\* find_subjects_mult(objects, id_only)
find_subjects_mult(st, objects, id_only) ==
    IF objects.kind # "list" THEN Raise("BadRequest")
    ELSE LET results == query_view(st, "by_subject_bulk", objects.ids)
             ids == [k \in DOMAIN results |-> results[k].value]
             assocs == [k \in DOMAIN results |-> results[k].doc]
         IN  Found(st, ids, assocs, id_only)

-----------------------------------------------------------------------------
(* Resource finds *)

\* _prepare_find_return(rows, res_assocs, id_only)
_prepare_find_return(rows, res_assocs, id_only) ==
    IF id_only
    THEN Ok([objs |-> [k \in DOMAIN rows |-> row_id(rows[k])], assocs |-> res_assocs])
    ELSE Ok([objs |-> [k \in DOMAIN rows |-> _persistence_dict_to_ion_object(row_doc(rows[k]))],
             assocs |-> res_assocs])

\* the view arguments of a call that asks for no pagination
NoFilter == [limit |-> Nil, skip |-> Nil, descending |-> FALSE]

\* self._get_view_args(kwargs): limit, skip and descending go to the store as
\* the caller gave them
_get_view_args(kwargs) == kwargs

Reverse(seq) == [k \in DOMAIN seq |-> seq[Len(seq) + 1 - k]]

Drop(seq, n) == IF n = Nil THEN seq ELSE SubSeq(seq, n + 1, Len(seq))

\* skip and limit of the store, over the rows in scan order
Paginate(rows, filter) == Take(Drop(rows, filter.skip), filter.limit)

\* ds.view(name, **filter): every row of the view, in the order asked for
Scan(rows, filter) ==
    Ok(Paginate(IF filter.descending THEN Reverse(rows) ELSE rows, filter))

\* ds.view(name, **filter)[key:endkey]: the scan from startkey=key to
\* endkey=endkey.  A descending scan runs downwards from its start key; the
\* store refuses a range whose start key comes before its end key in scan
\* order, and the error surfaces when the rows are read.
ScanRange(rows, key, endkey, filter) ==
    IF filter.descending
    THEN IF KeyCmp(key, endkey) < 0 THEN Raise("ServerError")
         ELSE Ok(Paginate(Reverse(Range(rows, endkey, key)), filter))
    ELSE Ok(Paginate(Range(rows, key, endkey), filter))

\* [dict(type=row['key'][0], name=row['key'][1], id=row.id) for row in rows]
res_assocs_by_type(rows) ==
    [k \in DOMAIN rows |-> [type |-> rows[k].key[1], name |-> rows[k].key[2],
                            id |-> rows[k].id]]

\* find_res_by_type once the rows are read (q: the outcome of the scan)
find_res_by_type_return(q, id_only) ==
    IF q.status # "ok" THEN Raise(q.status)
    ELSE _prepare_find_return(q.val, res_assocs_by_type(q.val), id_only)

\* a find_res_by_type that scans the whole index whatever the type
find_res_by_type_any(st, restype, lcstate, id_only, filter) ==
    IF lcstate # Nil THEN Raise("BadRequest")
    ELSE find_res_by_type_return(Scan(View("by_type", st), filter), id_only)

\* find_res_by_type(restype, lcstate, id_only, filter)
find_res_by_type(st, restype, lcstate, id_only, filter) ==
    IF lcstate # Nil THEN Raise("BadRequest")
    ELSE find_res_by_type_return(
             IF restype # Nil
             THEN ScanRange(View("by_type", st), <<restype>>,
                            _get_endkey(<<restype>>), filter)
             ELSE Scan(View("by_type", st), filter),
             id_only)

\* [dict(name=row['key'][0], type=row['key'][1], id=row.id) for row in rows]
res_assocs_by_name(rows) ==
    [k \in DOMAIN rows |-> [name |-> rows[k].key[1], type |-> rows[k].key[2],
                            id |-> rows[k].id]]

\* find_res_by_name once the rows are read
find_res_by_name_return(q, id_only) ==
    IF q.status # "ok" THEN Raise(q.status)
    ELSE _prepare_find_return(q.val, res_assocs_by_name(q.val), id_only)

\* key = [name]; if restype: key.append(restype)
key_by_name(name, restype) ==
    IF restype # Nil THEN <<name, restype>> ELSE <<name>>

\* find_res_by_name(name, restype, id_only, filter)
find_res_by_name(st, name, restype, id_only, filter) ==
    find_res_by_name_return(
        ScanRange(View("by_name", st), key_by_name(name, restype),
                  _get_endkey(key_by_name(name, restype)), filter),
        id_only)

\* [dict(lcstate=row['key'][1], type=row['key'][2], name=row['key'][3],
\*       id=row.id) for row in rows]
res_assocs_by_lcstate(rows) ==
    [k \in DOMAIN rows |-> [lcstate |-> rows[k].key[2], type |-> rows[k].key[3],
                            name |-> rows[k].key[4], id |-> rows[k].id]]

\* find_res_by_lcstate once the rows are read
find_res_by_lcstate_return(q, id_only) ==
    IF q.status # "ok" THEN Raise(q.status)
    ELSE _prepare_find_return(q.val, res_assocs_by_lcstate(q.val), id_only)

\* a key that takes every state for a maturity state
key_by_lcstate_maturity(lcstate, restype) ==
    <<0, lcstate>> \o (IF restype # Nil THEN <<restype>> ELSE <<>>)

\* key = [1, lcstate] if lcstate in AVAILABILITY else [0, lcstate];
\* if restype: key.append(restype)
key_by_lcstate(lcstate, restype) ==
    <<IF lcstate \in AVAILABILITY THEN 1 ELSE 0, lcstate>>
        \o (IF restype # Nil THEN <<restype>> ELSE <<>>)

\* find_res_by_lcstate after the cut of a compound state
find_res_by_lcstate_scan(st, lcstate, restype, id_only, filter) ==
    find_res_by_lcstate_return(
        ScanRange(View("by_lcstate", st), key_by_lcstate(lcstate, restype),
                  _get_endkey(key_by_lcstate(lcstate, restype)), filter),
        id_only)

\* find_res_by_lcstate(lcstate, restype, id_only, filter)
find_res_by_lcstate(st, lcstate, restype, id_only, filter) ==
    find_res_by_lcstate_scan(
        st, IF has_underscore(lcstate) THEN split_first(lcstate) ELSE lcstate,
        restype, id_only, filter)

\* key = []; if alt_id: key.append(alt_id), and alt_id_ns when it is not None
key_by_altid(alt_id, alt_id_ns) ==
    IF alt_id # Nil
    THEN (IF alt_id_ns # Nil THEN <<alt_id, alt_id_ns>> ELSE <<alt_id>>)
    ELSE <<>>

\* the rows find_res_by_alternative_id keeps: with a namespace and no alt id,
\* those of the namespace
altid_rows(rows, alt_id, alt_id_ns) ==
    IF alt_id_ns # Nil /\ alt_id = Nil
    THEN SelectSeq(rows, LAMBDA row : row.key[2] = alt_id_ns)
    ELSE rows

\* [dict(alt_id=row['key'][0], alt_id_ns=row['key'][1], id=row.id) ...]
res_assocs_by_altid(rows) ==
    [k \in DOMAIN rows |-> [alt_id |-> rows[k].key[1], alt_id_ns |-> rows[k].key[2],
                            id |-> rows[k].id]]

\* find_res_by_alternative_id once the rows are read
find_res_by_alternative_id_return(q, alt_id, alt_id_ns, id_only) ==
    IF q.status # "ok" THEN Raise(q.status)
    ELSE _prepare_find_return(altid_rows(q.val, alt_id, alt_id_ns),
                              res_assocs_by_altid(altid_rows(q.val, alt_id, alt_id_ns)),
                              id_only)

\* find_res_by_alternative_id(alt_id, alt_id_ns, id_only, filter)
find_res_by_alternative_id(st, alt_id, alt_id_ns, id_only, filter) ==
    find_res_by_alternative_id_return(
        ScanRange(View("by_altid", st), key_by_altid(alt_id, alt_id_ns),
                  _get_endkey(key_by_altid(alt_id, alt_id_ns)), filter),
        alt_id, alt_id_ns, id_only)

\* the dispatch of find_resources_ext, called without keyword, nested_type and
\* attr_name
find_resources_ext_filter(st, restype, lcstate, name, alt_id, alt_id_ns, id_only, filter_kwargs) ==
    IF name # Nil
    THEN (IF lcstate # Nil THEN Raise("BadRequest")
          ELSE find_res_by_name(st, name, restype, id_only, filter_kwargs))
    ELSE IF alt_id # Nil \/ alt_id_ns # Nil
    THEN find_res_by_alternative_id(st, alt_id, alt_id_ns, id_only, filter_kwargs)
    ELSE IF restype # Nil /\ lcstate # Nil
    THEN find_res_by_lcstate(st, lcstate, restype, id_only, filter_kwargs)
    ELSE IF restype # Nil
    THEN find_res_by_type(st, restype, lcstate, id_only, filter_kwargs)
    ELSE IF lcstate # Nil
    THEN find_res_by_lcstate(st, lcstate, restype, id_only, filter_kwargs)
    ELSE find_res_by_type(st, Nil, Nil, id_only, filter_kwargs)

\* find_resources_ext(restype, lcstate, name, alt_id, alt_id_ns, limit, skip,
\* descending, id_only)
find_resources_ext(st, restype, lcstate, name, alt_id, alt_id_ns, limit, skip, descending, id_only) ==
    find_resources_ext_filter(
        st, restype, lcstate, name, alt_id, alt_id_ns, id_only,
        _get_view_args([limit |-> limit, skip |-> skip, descending |-> descending]))

\* [dict(keyword=row['key'][0], type=row['key'][1], id=row.id) for row in rows]
res_assocs_by_keyword(rows) ==
    [k \in DOMAIN rows |-> [keyword |-> rows[k].key[1], type |-> rows[k].key[2],
                            id |-> rows[k].id]]

\* key = [keyword]; if restype: key.append(restype)
key_by_keyword(keyword, restype) ==
    IF restype # Nil THEN <<keyword, restype>> ELSE <<keyword>>

\* find_res_by_keyword once the rows are read
find_res_by_keyword_return(q, id_only) ==
    IF q.status # "ok" THEN Raise(q.status)
    ELSE _prepare_find_return(q.val, res_assocs_by_keyword(q.val), id_only)

\* find_res_by_keyword(keyword, restype, id_only, filter)
find_res_by_keyword(st, keyword, restype, id_only, filter) ==
    IF keyword = Nil THEN Raise("BadRequest")
    ELSE find_res_by_keyword_return(
             ScanRange(View("by_keyword", st), key_by_keyword(keyword, restype),
                       _get_endkey(key_by_keyword(keyword, restype)), filter),
             id_only)

\* [dict(nested_type=row['key'][0], type=row['key'][1], id=row.id) ...]
res_assocs_by_nested_type(rows) ==
    [k \in DOMAIN rows |-> [nested_type |-> rows[k].key[1], type |-> rows[k].key[2],
                            id |-> rows[k].id]]

\* key = [nested_type]; if restype: key.append(restype)
key_by_nested_type(nested_type, restype) ==
    IF restype # Nil THEN <<nested_type, restype>> ELSE <<nested_type>>

\* find_res_by_nested_type once the rows are read
find_res_by_nested_type_return(q, id_only) ==
    IF q.status # "ok" THEN Raise(q.status)
    ELSE _prepare_find_return(q.val, res_assocs_by_nested_type(q.val), id_only)

\* find_res_by_nested_type(nested_type, restype, id_only, filter)
find_res_by_nested_type(st, nested_type, restype, id_only, filter) ==
    IF nested_type = Nil THEN Raise("BadRequest")
    ELSE find_res_by_nested_type_return(
             ScanRange(View("by_nestedtype", st), key_by_nested_type(nested_type, restype),
                       _get_endkey(key_by_nested_type(nested_type, restype)), filter),
             id_only)

\* [dict(type=row['key'][0], attr_name=row['key'][1], attr_value=row['key'][2],
\*       id=row.id) for row in rows]
res_assocs_by_attribute(rows) ==
    [k \in DOMAIN rows |-> [type |-> rows[k].key[1], attr_name |-> rows[k].key[2],
                            attr_value |-> rows[k].key[3], id |-> rows[k].id]]

\* key = [restype, attr_name]; if attr_value: key.append(attr_value)
key_by_attribute(restype, attr_name, attr_value) ==
    IF attr_value # Nil THEN <<restype, attr_name, attr_value>>
    ELSE <<restype, attr_name>>

\* find_res_by_attribute once the rows are read
find_res_by_attribute_return(q, id_only) ==
    IF q.status # "ok" THEN Raise(q.status)
    ELSE _prepare_find_return(q.val, res_assocs_by_attribute(q.val), id_only)

\* find_res_by_attribute(restype, attr_name, attr_value, id_only, filter)
find_res_by_attribute(st, restype, attr_name, attr_value, id_only, filter) ==
    IF attr_name = Nil THEN Raise("BadRequest")
    ELSE find_res_by_attribute_return(
             ScanRange(View("by_attribute", st),
                       key_by_attribute(restype, attr_name, attr_value),
                       _get_endkey(key_by_attribute(restype, attr_name, attr_value)),
                       filter),
             id_only)

\* the qualifiers of a call of find_resources_ext; an argument left at its
\* default (None, "") is Nil
Qualifiers(restype, lcstate, name, keyword, nested_type, attr_name, attr_value, alt_id, alt_id_ns) ==
    [restype |-> restype, lcstate |-> lcstate, name |-> name, keyword |-> keyword,
     nested_type |-> nested_type, attr_name |-> attr_name, attr_value |-> attr_value,
     alt_id |-> alt_id, alt_id_ns |-> alt_id_ns]

\* a dispatch that looks at the keyword before the name
find_resources_ext_branch_keyword_first(q) ==
    IF q.keyword # Nil THEN "find_res_by_keyword"
    ELSE IF q.name # Nil
    THEN (IF q.lcstate # Nil THEN "BadRequest" ELSE "find_res_by_name")
    ELSE IF q.alt_id # Nil \/ q.alt_id_ns # Nil THEN "find_res_by_alternative_id"
    ELSE IF q.nested_type # Nil THEN "find_res_by_nested_type"
    ELSE IF q.restype # Nil /\ q.attr_name # Nil THEN "find_res_by_attribute"
    ELSE IF q.restype # Nil /\ q.lcstate # Nil THEN "find_res_by_lcstate"
    ELSE IF q.restype # Nil THEN "find_res_by_type"
    ELSE IF q.lcstate # Nil THEN "find_res_by_lcstate"
    ELSE IF q.restype = Nil /\ q.lcstate = Nil /\ q.name = Nil THEN "find_res_by_type"
    ELSE "None"

\* the if / elif chain of find_resources_ext: the branch a call takes.
\* "None" is the end of the chain, where the method returns nothing
find_resources_ext_branch(q) ==
    IF q.name # Nil
    THEN (IF q.lcstate # Nil THEN "BadRequest" ELSE "find_res_by_name")
    ELSE IF q.keyword # Nil THEN "find_res_by_keyword"
    ELSE IF q.alt_id # Nil \/ q.alt_id_ns # Nil THEN "find_res_by_alternative_id"
    ELSE IF q.nested_type # Nil THEN "find_res_by_nested_type"
    ELSE IF q.restype # Nil /\ q.attr_name # Nil THEN "find_res_by_attribute"
    ELSE IF q.restype # Nil /\ q.lcstate # Nil THEN "find_res_by_lcstate"
    ELSE IF q.restype # Nil THEN "find_res_by_type"
    ELSE IF q.lcstate # Nil THEN "find_res_by_lcstate"
    ELSE IF q.restype = Nil /\ q.lcstate = Nil /\ q.name = Nil THEN "find_res_by_type"
    ELSE "None"

\* the call each branch of find_resources_ext makes
find_resources_ext_call(st, q, branch, id_only, filter_kwargs) ==
    CASE branch = "find_res_by_name" ->
            find_res_by_name(st, q.name, q.restype, id_only, filter_kwargs)
      [] branch = "find_res_by_keyword" ->
            find_res_by_keyword(st, q.keyword, q.restype, id_only, filter_kwargs)
      [] branch = "find_res_by_alternative_id" ->
            find_res_by_alternative_id(st, q.alt_id, q.alt_id_ns, id_only, filter_kwargs)
      [] branch = "find_res_by_nested_type" ->
            find_res_by_nested_type(st, q.nested_type, q.restype, id_only, filter_kwargs)
      [] branch = "find_res_by_attribute" ->
            find_res_by_attribute(st, q.restype, q.attr_name, q.attr_value, id_only,
                                  filter_kwargs)
      [] branch = "find_res_by_lcstate" ->
            find_res_by_lcstate(st, q.lcstate, q.restype, id_only, filter_kwargs)
      [] branch = "find_res_by_type" /\ q.restype # Nil ->
            find_res_by_type(st, q.restype, q.lcstate, id_only, filter_kwargs)
      [] branch = "find_res_by_type" /\ q.restype = Nil ->
            find_res_by_type(st, Nil, Nil, id_only, filter_kwargs)
      [] branch = "BadRequest" -> Raise("BadRequest")
      [] OTHER -> Ok(None)

\* find_resources_ext with every qualifier
find_resources_ext_qualified(st, q, limit, skip, descending, id_only) ==
    find_resources_ext_call(
        st, q, find_resources_ext_branch(q), id_only,
        _get_view_args([limit |-> limit, skip |-> skip, descending |-> descending]))

-----------------------------------------------------------------------------
(* The index registry *)

\* COUCHDB_CONFIGS: profile -> the index categories of its 'views' entry
COUCHDB_CONFIGS ==
    ("OBJECTS" :> <<"object", "association", "attachment">>)
    @@ ("RESOURCES" :> <<"resource", "directory", "association", "attachment">>)
    @@ ("EVENTS" :> <<"event">>)
    @@ ("STATE" :> <<>>)
    @@ ("SCIDATA" :> <<"datasets", "manifest">>)
    @@ ("EXAMPLES" :> <<"posts">>)
    @@ ("BASIC" :> <<>>)
    @@ ("FILESYSTEM" :> <<"catalog">>)

\* the index definitions of each category of COUCHDB_VIEWS, by their names
COUCHDB_VIEW_NAMES ==
    [resource |-> {"by_type", "by_lcstate", "by_name", "by_altid", "by_keyword",
                   "by_nestedtype", "by_attribute"},
     object |-> {"by_type"},
     attachment |-> {"by_resource"},
     association |-> {"by_doc", "by_sub", "by_obj", "by_match", "by_idpred",
                      "by_id", "by_pred", "by_bulk", "by_subject_bulk"},
     directory |-> {"by_path", "by_key", "by_parent", "by_attribute"},
     event |-> {"by_origin", "by_type", "by_origintype", "by_time"},
     posts |-> {"posts_by_id", "posts_by_title", "posts_by_updated",
                "posts_by_author", "posts_by_author_date", "comments_by_post_id",
                "comments_by_author", "comments_by_updated", "posts_join_comments",
                "dataset_by_id"},
     datasets |-> {"bounds", "dataset_by_id", "dataset_by_latest",
                   "stream_join_granule"},
     manifest |-> {"by_dataset"},
     catalog |-> {"file_by_created_date", "file_by_modified_date", "file_by_name",
                  "file_by_owner"}]

\* res_views[view] = COUCHDB_VIEWS[view] for view in views
res_views(views) ==
    IF \E i \in DOMAIN views : views[i] \notin DOMAIN COUCHDB_VIEW_NAMES
    THEN Raise("KeyError")
    ELSE Ok([view \in Elems(views) |-> COUCHDB_VIEW_NAMES[view]])

\* get_couch_view_designs(config); a subscript with a missing key raises KeyError
get_couch_view_designs(config) ==
    IF config \notin DOMAIN COUCHDB_CONFIGS THEN Raise("KeyError")
    ELSE res_views(COUCHDB_CONFIGS[config])

-----------------------------------------------------------------------------
(* State: the documents of the store, the last call and what it returned.  *)
(* pc and found belong to the callers of the interleaved specification.    *)

Init ==
    /\ store = [id \in DocIds |-> Absent]
    /\ call = [op |-> "init"]
    /\ ret = Raise("none")
    /\ pc = [c \in Callers |-> "idle"]
    /\ found = [c \in Callers |-> None]

\* the outcome of a mutating operation becomes the state
Returns(r) ==
    /\ store' = r.store
    /\ ret' = [status |-> r.status, val |-> r.val]
    /\ UNCHANGED <<pc, found>>

\* the result of a query becomes the state
Answers(r) ==
    /\ ret' = r
    /\ UNCHANGED <<store, pc, found>>

\* the ways a caller names a resource: by its id
Refs == {Str(id) : id \in ResIds}

\* the type of the resource a caller stores under an id: ids 1, 2, 3 hold
\* resources of types 3, 1, 2
TypeOf(id) == <<3, 1, 2>>[((id - 1) % 3) + 1]

\* create(obj, object_id) of a resource
Create(id, t, n, lc) ==
    /\ call' = [op |-> "create", id |-> id]
    /\ Returns(create(store, ResourceDoc(id, t, n, lc)))

\* update(obj) of an association, with its retired flag set
Retire(id) ==
    /\ IsAssociation(store[id])
    /\ ~store[id].retired
    /\ call' = [op |-> "update", id |-> id]
    /\ Returns(update(store, [store[id] EXCEPT !.retired = TRUE]))

\* delete(obj, del_associations=...)
Delete(obj, del_associations) ==
    /\ call' = [op |-> "delete", obj |-> obj, del_associations |-> del_associations,
                scanned |-> IF del_associations /\ obj.kind = "str"
                            THEN Len(delete_doc_assoc_ids(store, obj.id).val)
                            ELSE 0]
    /\ Returns(delete(store, obj, del_associations))

\* create_association(subject, predicate, obj)
CreateAssociation(subject, predicate, obj) ==
    /\ \E id \in AssocIds :
         /\ ~Exists(store, id)
         /\ call' = [op |-> "create_association", subject |-> subject,
                     predicate |-> predicate, obj |-> obj]
         /\ Returns(create_association(store, subject, predicate, obj, id))

\* delete_association(association)
DeleteAssociation(association) ==
    /\ call' = [op |-> "delete_association", association |-> association]
    /\ Returns(delete_association(store, association))

Mutate ==
    \/ \E id \in ResIds : Create(id, TypeOf(id), 0, 2)
    \/ \E id \in AssocIds : Retire(id)
    \/ \E id \in ResIds, c \in BOOLEAN : Delete(Str(id), c)
    \/ \E s \in Refs, p \in PredNames, o \in Refs : CreateAssociation(s, p, o)
    \/ \E id \in AssocIds : DeleteAssociation(Str(id))
    \/ \E s \in Refs, p \in PredNames \cup {Nil}, o \in Refs :
         DeleteAssociation(Triple(s, p, o))

\* the id lists of the bulk lookups
SeedLists == UNION {[1..n -> ResIds] : n \in 0..MaxSeeds}

FindObjects(subject, predicate, object_type, id_only) ==
    /\ call' = [op |-> "find_objects", subject |-> subject, predicate |-> predicate,
                type |-> object_type, id_only |-> id_only,
                queries |-> find_objects_queries(subject, predicate, object_type)]
    /\ Answers(find_objects(store, subject, predicate, object_type, id_only))

FindSubjects(subject_type, predicate, obj, id_only) ==
    /\ call' = [op |-> "find_subjects", obj |-> obj, predicate |-> predicate,
                type |-> subject_type, id_only |-> id_only,
                queries |-> find_subjects_queries(subject_type, predicate, obj)]
    /\ Answers(find_subjects(store, subject_type, predicate, obj, id_only))

FindObjectsMult(subjects, id_only) ==
    /\ call' = [op |-> "find_objects_mult", ids |-> subjects, id_only |-> id_only]
    /\ Answers(find_objects_mult(store, subjects, id_only))

FindSubjectsMult(objects, id_only) ==
    /\ call' = [op |-> "find_subjects_mult", ids |-> objects, id_only |-> id_only]
    /\ Answers(find_subjects_mult(store, objects, id_only))

FindAssociations(subject, predicate, obj, id_only, anyside) ==
    /\ call' = [op |-> "find_associations", subject |-> subject,
                predicate |-> predicate, obj |-> obj, id_only |-> id_only,
                anyside |-> anyside,
                queries |-> find_associations_queries(subject, predicate, obj, anyside)]
    /\ Answers(find_associations(store, subject, predicate, obj, id_only, anyside, Nil))

Query ==
    \/ \E s \in Refs, p \in PredNames \cup {Nil}, t \in Types \cup {Nil},
          id_only \in BOOLEAN : FindObjects(s, p, t, id_only)
    \/ \E o \in Refs, p \in PredNames \cup {Nil}, t \in Types \cup {Nil} :
         FindSubjects(t, p, o, TRUE)
    \/ \E ids \in SeedLists : FindObjectsMult(List(ids), TRUE)
    \/ \E ids \in SeedLists : FindSubjectsMult(List(ids), TRUE)
    \/ \E a \in Refs \cup {List(ids) : ids \in SeedLists}, p \in PredNames \cup {Nil} :
         FindAssociations(None, p, None, TRUE, a)

FindResByType(restype, lcstate, id_only) ==
    /\ call' = [op |-> "find_res_by_type", restype |-> restype, lcstate |-> lcstate,
                id_only |-> id_only]
    /\ Answers(find_res_by_type(store, restype, lcstate, id_only, NoFilter))

FindResByName(name, restype, id_only) ==
    /\ call' = [op |-> "find_res_by_name", name |-> name, restype |-> restype,
                id_only |-> id_only]
    /\ Answers(find_res_by_name(store, name, restype, id_only, NoFilter))

\* the resource types of the resource finds
FindTypes == {1, 2}

NextRes ==
    \/ \E id \in FindResIds, t \in FindTypes, n \in Names, lc \in LcStates :
         Create(id, t, n, lc)
    \/ \E id \in FindResIds : Delete(Str(id), FALSE)
    \/ \E t \in FindTypes \cup {Nil}, id_only \in BOOLEAN : FindResByType(t, Nil, id_only)
    \/ \E n \in Names, t \in FindTypes \cup {Nil} : FindResByName(n, t, TRUE)

\* Sequential callers that store resources and find them
SpecRes == Init /\ [][NextRes]_vars

\* the resource documents stored under an id for the extended finds: every
\* type, lifecycle state and availability without alt ids, and every list of
\* alt ids on a resource of type 1 and the first availability
ExtIds == 1..NumRes
AltIdLists == UNION {[1..n -> AltIds] : n \in 0..MaxAltIds}
ExtDocs(id) ==
    {ResourceDocExt(id, t, 1, lc, av, <<>>) :
        t \in FindTypes, lc \in LcStates, av \in AVAILABILITY}
    \cup {ResourceDocExt(id, 1, 1, lc, 11, alt_ids) :
             lc \in LcStates, alt_ids \in AltIdLists \ {<<>>}}

\* create(obj, object_id) of a resource with availability and alt ids
CreateExt(doc) ==
    /\ call' = [op |-> "create", id |-> doc._id]
    /\ Returns(create(store, doc))

\* the state strings given to the finds: none, a maturity, an availability,
\* a compound of both
LcStateArgs ==
    {Nil} \cup LcStates \cup AVAILABILITY
        \cup {Compound(m, a) : m \in LcStates, a \in AVAILABILITY}

FindResourcesExt(restype, lcstate, name, alt_id, alt_id_ns, limit, skip, descending) ==
    /\ call' = [op |-> "find_resources_ext", restype |-> restype,
                lcstate |-> lcstate, name |-> name, alt_id |-> alt_id,
                alt_id_ns |-> alt_id_ns, limit |-> limit, skip |-> skip,
                descending |-> descending]
    /\ Answers(find_resources_ext(store, restype, lcstate, name, alt_id, alt_id_ns,
                                  limit, skip, descending, TRUE))

\* the profile names given to the registry: the defined ones and one more
Profiles == DOMAIN COUCHDB_CONFIGS \cup {"UNKNOWN"}

GetCouchViewDesigns(config) ==
    /\ call' = [op |-> "get_couch_view_designs", config |-> config]
    /\ Answers(get_couch_view_designs(config))

NextExt ==
    \/ \E id \in ExtIds : \E doc \in ExtDocs(id) : CreateExt(doc)
    \/ \E id \in ExtIds : Delete(Str(id), FALSE)
    \/ \E t \in FindTypes \cup {Nil}, lc \in LcStateArgs :
         FindResourcesExt(t, lc, Nil, Nil, Nil, Nil, Nil, FALSE)
    \/ \E t \in FindTypes \cup {Nil}, lc \in {Nil, 2}, limit \in {Nil, 1},
          descending \in BOOLEAN :
         FindResourcesExt(t, lc, Nil, Nil, Nil, limit, Nil, descending)
    \/ \E limit \in {Nil, 1}, descending \in BOOLEAN :
         FindResourcesExt(Nil, Nil, Nil, Nil, Nil, limit, 1, descending)
    \/ \E t \in FindTypes \cup {Nil}, lc \in {Nil, 2}, descending \in BOOLEAN :
         FindResourcesExt(t, lc, 1, Nil, Nil, Nil, Nil, descending)
    \/ \E alt_id \in AltValues \cup {Nil}, ns \in Namespaces \cup {Nil, UNDERSCORE},
          descending \in BOOLEAN :
         /\ alt_id # Nil \/ ns # Nil
         /\ FindResourcesExt(Nil, Nil, Nil, alt_id, ns, Nil, Nil, descending)
    \/ \E config \in Profiles : GetCouchViewDesigns(config)

\* Sequential callers that store resources with lifecycle states and alt ids,
\* find them through find_resources_ext and look up the index registry
SpecExt == Init /\ [][NextExt]_vars

\* the alt ids of the alt-id lookups: those of AltIds and one with two ':'
LongAltIds == AltIds \cup {<<1, v, v>> : v \in AltValues}
LongAltIdLists == UNION {[1..n -> LongAltIds] : n \in 0..MaxAltIds}

\* the resource documents stored under an id for the alt-id lookups: with
\* every list of alt ids, with a uirefid alone, with both
AltDocs(id) ==
    {ResourceDocExt(id, 1, 1, lc, 11, alt_ids) :
        lc \in LcStates, alt_ids \in LongAltIdLists}
    \cup {ResourceDocUi(id, 1, 1, lc, 11, u) : lc \in LcStates, u \in AltValues}
    \cup {ResourceDocBoth(id, 1, 1, lc, 11, alt_ids, u) :
             lc \in LcStates, alt_ids \in LongAltIdLists, u \in AltValues}

\* the alt id values and namespaces given to the lookups
AltIdArgs == {Nil} \cup {altid_string(parts) : parts \in {<<v>> : v \in AltValues}
                                                     \cup {<<1, v, v>> : v \in AltValues}}
NamespaceArgs == {Nil, UNDERSCORE, UIREFID} \cup Namespaces

FindResByAlternativeId(alt_id, alt_id_ns) ==
    /\ call' = [op |-> "find_res_by_alternative_id", alt_id |-> alt_id,
                alt_id_ns |-> alt_id_ns]
    /\ Answers(find_res_by_alternative_id(store, alt_id, alt_id_ns, TRUE, NoFilter))

NextAlt ==
    \/ \E id \in ExtIds : \E doc \in AltDocs(id) : CreateExt(doc)
    \/ \E id \in ExtIds : Delete(Str(id), FALSE)
    \/ \E alt_id \in AltIdArgs, ns \in NamespaceArgs : FindResByAlternativeId(alt_id, ns)

\* Sequential callers that store resources with alt ids and uirefids and look
\* them up by alt id
SpecAlt == Init /\ [][NextAlt]_vars

\* a delete_doc whose store calls are exchanged: the document first
delete_doc_store_call_document_first(st, step, doc_id, assoc_ids, failing) ==
    IF step = "bulk"
    THEN super_delete_doc(st, doc_id)
    ELSE delete_doc_cascade_bulk(st, assoc_ids, failing)

\* the store calls of delete_doc after the scan, in the order of the code:
\* the bulk delete of the associations found, then the delete of the document
delete_doc_store_call(st, step, doc_id, assoc_ids, failing) ==
    IF step = "bulk"
    THEN delete_doc_cascade_bulk(st, assoc_ids, failing)
    ELSE super_delete_doc(st, doc_id)

\* delete(doc_id, del_associations=True) by caller c, first store call: the
\* anyside scan, which the store may fail
CascadeScan(c, doc_id, raises) ==
    /\ pc[c] = "idle"
    /\ call' = [op |-> "delete", obj |-> Str(doc_id), del_associations |-> TRUE,
                step |-> "scan", caller |-> c]
    /\ IF raises \/ delete_doc_assoc_ids(store, doc_id).status # "ok"
       THEN /\ ret' = [status |-> "ServerError", val |-> None]
            /\ UNCHANGED <<pc, found>>
       ELSE /\ pc' = [pc EXCEPT ![c] = "scanned"]
            /\ found' = [found EXCEPT ![c] =
                            [doc_id |-> doc_id,
                             assoc_ids |-> delete_doc_assoc_ids(store, doc_id).val,
                             failed |-> {}]]
            /\ ret' = Raise("pending")
    /\ UNCHANGED store

\* second store call: the bulk delete of the associations found; the store
\* may fail the call as a whole, or the deletes of some of the ids
CascadeBulk(c, failing, raises) ==
    /\ pc[c] = "scanned"
    /\ failing \subseteq Elems(found[c].assoc_ids)
    /\ call' = [op |-> "delete", obj |-> Str(found[c].doc_id),
                del_associations |-> TRUE, step |-> "bulk", caller |-> c]
    /\ IF raises
       THEN /\ ret' = [status |-> "ServerError", val |-> None]
            /\ pc' = [pc EXCEPT ![c] = "idle"]
            /\ found' = [found EXCEPT ![c] = None]
            /\ UNCHANGED store
       ELSE /\ store' = delete_doc_store_call(store, "bulk", found[c].doc_id,
                                             found[c].assoc_ids, failing).store
            /\ pc' = [pc EXCEPT ![c] = "bulk_done"]
            /\ found' = [found EXCEPT ![c].failed = failing]
            /\ ret' = Raise("pending")

\* third store call: the delete of the document; delete returns None
CascadeDoc(c) ==
    /\ pc[c] = "bulk_done"
    /\ call' = [op |-> "delete", obj |-> Str(found[c].doc_id),
                del_associations |-> TRUE, step |-> "doc", caller |-> c,
                failed |-> found[c].failed]
    /\ LET r == delete_doc_store_call(store, "doc", found[c].doc_id,
                                      found[c].assoc_ids, found[c].failed)
       IN  /\ store' = r.store
           /\ ret' = [status |-> r.status, val |-> None]
    /\ pc' = [pc EXCEPT ![c] = "idle"]
    /\ found' = [found EXCEPT ![c] = None]

\* delete_mult(object_ids) when the deletes of the ids in failing fail
DeleteMult(object_ids, failing) ==
    /\ \A id \in Elems(object_ids) : Exists(store, id)
    /\ failing \subseteq Elems(object_ids)
    /\ call' = [op |-> "delete_mult", ids |-> object_ids, failed |-> failing]
    /\ Returns(delete_mult(store, object_ids, failing))

\* the lists of association ids given to delete_mult: distinct ids, ascending
AssocIdLists ==
    {ids \in UNION {[1..n -> AssocIds] : n \in 1..MaxAssoc} :
        \A i, j \in DOMAIN ids : i < j => ids[i] < ids[j]}

\* the caller whose cascading delete is taken apart; the operations of the
\* others run between its store calls
CascadeCallers == {1}

NextCascade ==
    \/ \E id \in ResIds : Create(id, TypeOf(id), 0, 2)
    \/ \E s \in Refs, p \in PredNames, o \in Refs : CreateAssociation(s, p, o)
    \/ \E c \in CascadeCallers, id \in ResIds, raises \in BOOLEAN :
         CascadeScan(c, id, raises)
    \/ \E c \in CascadeCallers, failing \in SUBSET AssocIds, raises \in BOOLEAN :
         CascadeBulk(c, failing, raises)
    \/ \E c \in CascadeCallers : CascadeDoc(c)
    \/ \E ids \in AssocIdLists, failing \in SUBSET AssocIds : DeleteMult(ids, failing)

\* Callers whose cascading deletes run store call by store call, against a
\* store that may fail a call or single deletes of a bulk delete
SpecCascade == Init /\ [][NextCascade]_vars

NextFrame ==
    \/ \E id \in ResIds : Create(id, TypeOf(id), 0, 2)
    \/ \E s \in Refs, p \in PredNames, o \in Refs : CreateAssociation(s, p, o)
    \/ \E id \in ResIds \cup AssocIds : DeleteAssociation(Str(id))
    \/ \E s \in Refs, p \in PredNames \cup {Nil}, o \in Refs :
         DeleteAssociation(Triple(s, p, o))

\* Sequential callers that give delete_association the id of any document
SpecFrame == Init /\ [][NextFrame]_vars

-----------------------------------------------------------------------------
(* Row projection (_parse_results) *)

\* the raw values of a query result: a primitive, a list, a dict, a couchdb
\* Row, a couchdb ViewResults
RScalar(v) == [kind |-> "scalar", v |-> v]
RList(items) == [kind |-> "list", items |-> items]
RDict(fields) == [kind |-> "dict", fields |-> fields]
RRow(fields) == [kind |-> "Row", fields |-> fields]
RViewResults(rows) == [kind |-> "ViewResults", rows |-> rows]

\* self._io_deserializer.deserialize(obj_dict): the typed object made of the
\* dict, with the values of the dict as they are
deserialize(obj_dict) == [kind |-> "IonObject", fields |-> obj_dict.fields]

RECURSIVE _parse_results(_)

\* a projection that recurses into every dict, the ones with an '_id' too
_parse_results_into_documents(doc) ==
    IF doc.kind = "ViewResults"
    THEN _parse_results(RList(doc.rows))
    ELSE IF doc.kind = "Row"
    THEN RDict([key \in DOMAIN doc.fields \cap {"id", "key", "value", "doc"} |->
                  IF key = "id" THEN doc.fields[key]
                  ELSE _parse_results(doc.fields[key])])
    ELSE IF doc.kind = "list"
    THEN RList([k \in DOMAIN doc.items |-> _parse_results(doc.items[k])])
    ELSE IF doc.kind = "dict"
    THEN RDict([key \in DOMAIN doc.fields |-> _parse_results(doc.fields[key])])
    ELSE doc

\* CouchPyonDataStore._parse_results
_parse_results(doc) ==
    IF doc.kind = "ViewResults"
    THEN _parse_results(RList(doc.rows))
    ELSE IF doc.kind = "Row"
    THEN RDict([key \in DOMAIN doc.fields \cap {"id", "key", "value", "doc"} |->
                  IF key = "id" THEN doc.fields[key]
                  ELSE _parse_results(doc.fields[key])])
    ELSE IF doc.kind = "list"
    THEN RList([k \in DOMAIN doc.items |-> _parse_results(doc.items[k])])
    ELSE IF doc.kind = "dict"
    THEN IF "_id" \in DOMAIN doc.fields
         THEN deserialize(doc)
         ELSE RDict([key \in DOMAIN doc.fields |-> _parse_results(doc.fields[key])])
    ELSE doc

\* _parse_results of the result of a query: reading the rows of a
\* ViewResults runs the query, which the store may refuse (ResourceNotFound)
_parse_results_query(doc, not_found) ==
    IF doc.kind = "ViewResults" /\ not_found
    THEN Raise("BadRequest")
    ELSE Ok(_parse_results(doc))

RawScalars == {RScalar(v) : v \in 1..NumScalars}

\* stored documents: flat, and with a list and a document inside
RawDocuments ==
    {RDict("_id" :> RScalar(v)) : v \in 1..NumScalars}
    \cup {RDict("_id" :> RScalar(1) @@ "a" :> RList(<<RScalar(1)>>)),
          RDict("_id" :> RScalar(1) @@ "a" :> RDict("_id" :> RScalar(2)))}

RawLists ==
    {RList(items) : items \in UNION {[1..n -> RawScalars \cup RawDocuments] :
                                        n \in 0..MaxRows}}

\* dicts without an '_id', one of them with an 'id'
RawDicts ==
    {RDict("a" :> v) : v \in RawScalars \cup RawDocuments}
    \cup {RDict("id" :> v @@ "a" :> w) : v \in RawScalars, w \in RawDocuments}
    \cup {RDict("a" :> RList(<<v>>)) : v \in RawDocuments}
    \cup {RDict(<<>>)}

\* the keys of rows: a primitive or an array of primitives
RawKeys == RawScalars \cup {RList(<<v, w>>) : v \in RawScalars, w \in RawScalars}

\* the values of rows: a primitive (null for include_docs), a document, a
\* dict of the emit
RawRowValues ==
    {RScalar(1)} \cup RawDocuments \cup {RDict("a" :> v) : v \in RawDocuments}

\* rows of a map (with id), of a reduce (without), with include_docs (doc)
RawRows ==
    {RRow("key" :> k @@ "value" :> v) : k \in RawKeys, v \in RawRowValues}
    \cup {RRow("id" :> i @@ "key" :> k @@ "value" :> v) :
            i \in RawScalars, k \in RawKeys, v \in {RScalar(1), RDict("_id" :> RScalar(1))}}
    \cup {RRow("id" :> i @@ "key" :> RScalar(1) @@ "value" :> RScalar(1) @@ "doc" :> d) :
            i \in RawScalars, d \in RawDocuments}

\* the rows of the results of a query: a few rows of every shape
SomeRows ==
    {RRow("key" :> RScalar(1) @@ "value" :> RScalar(1)),
     RRow("id" :> RScalar(1) @@ "key" :> RList(<<RScalar(1), RScalar(2)>>)
            @@ "value" :> RDict("_id" :> RScalar(1))),
     RRow("id" :> RScalar(2) @@ "key" :> RScalar(1) @@ "value" :> RScalar(1)
            @@ "doc" :> RDict("_id" :> RScalar(2)))}

RawResults ==
    {RViewResults(rows) : rows \in UNION {[1..n -> SomeRows] : n \in 0..MaxRows}}

RawValues ==
    RawScalars \cup RawDocuments \cup RawLists \cup RawDicts \cup RawRows
    \cup {RList(<<r>>) : r \in SomeRows} \cup RawResults

ParseResults(doc, not_found) ==
    /\ call' = [op |-> "_parse_results", doc |-> doc, not_found |-> not_found]
    /\ Answers(_parse_results_query(doc, not_found))

NextParse ==
    \E doc \in RawValues, not_found \in BOOLEAN : ParseResults(doc, not_found)

\* Callers that project every raw value of the bounded sets
SpecParse == Init /\ [][NextParse]_vars

\* the arguments given to the calls whose checks are examined: none, the id
\* of a resource (stored or not), a document with or without id and revision
SubjectArgs ==
    {None} \cup Refs \cup {Obj(1, TypeOf(1), i, r) : i \in BOOLEAN, r \in BOOLEAN}
ObjectArgs ==
    {None} \cup Refs \cup {Obj(2, TypeOf(2), i, r) : i \in BOOLEAN, r \in BOOLEAN}
AnysideArgs == {None} \cup Refs \cup {List(ids) : ids \in SeedLists}

\* a predicate name that Predicates does not define
UndefinedPredicate == 3

NextValid ==
    \/ \E id \in ResIds : Create(id, TypeOf(id), 0, 2)
    \/ \E s \in SubjectArgs, p \in PredNames \cup {Nil, UndefinedPredicate},
          o \in ObjectArgs : CreateAssociation(s, p, o)
    \/ \E s \in {None, Str(1)}, p \in {Nil, 1}, o \in {None, Str(2)}, a \in AnysideArgs :
         FindAssociations(s, p, o, TRUE, a)

\* Sequential callers that give the operations arguments of every shape
SpecValid == Init /\ [][NextValid]_vars

\* create_association by caller c, up to the duplicate check
CreateAssociationCheck(c, subject, predicate, obj) ==
    /\ pc[c] = "idle"
    /\ call' = [op |-> "create_association", subject |-> subject,
                predicate |-> predicate, obj |-> obj]
    /\ LET r == create_association_check(store, subject, predicate, obj)
       IN  IF r.status = "ok"
           THEN /\ pc' = [pc EXCEPT ![c] = "write"]
                /\ found' = [found EXCEPT ![c] = r.val]
                /\ ret' = Raise("pending")
           ELSE /\ ret' = [status |-> r.status, val |-> None]
                /\ UNCHANGED <<pc, found>>
    /\ UNCHANGED store

\* create_association by caller c, from the duplicate check on: the write
CreateAssociationWrite(c) ==
    /\ pc[c] = "write"
    /\ \E id \in AssocIds :
         /\ ~Exists(store, id)
         /\ LET r == create_association_write(store, found[c], id)
            IN  /\ store' = r.store
                /\ ret' = [status |-> r.status, val |-> r.val]
    /\ call' = [op |-> "create_association", subject |-> Str(found[c].s),
                predicate |-> found[c].p, obj |-> Str(found[c].o)]
    /\ pc' = [pc EXCEPT ![c] = "idle"]
    /\ found' = [found EXCEPT ![c] = None]

NextConc ==
    \/ \E id \in ResIds : Create(id, TypeOf(id), 0, 2)
    \/ \E id \in AssocIds : DeleteAssociation(Str(id))
    \/ \E c \in Callers, s \in Refs, p \in PredNames, o \in Refs :
         CreateAssociationCheck(c, s, p, o)
    \/ \E c \in Callers : CreateAssociationWrite(c)

\* Concurrent callers: the store calls of create_association interleave
SpecConc == Init /\ [][NextConc]_vars

\* Sequential callers: every operation runs to completion
Next == Mutate

Spec == Init /\ [][Next]_vars

\* Sequential callers that also query the associations
NextFind == Mutate \/ Query

SpecFind == Init /\ [][NextFind]_vars

\* the resource documents stored under an id for the dispatch: of both types,
\* with and without a keyword, a contact and an alt id
DispatchDocs(id) ==
    {ResourceDocExt(id, t, 1, 2, 11, <<>>) : t \in FindTypes}
    \cup {ResourceDocFull(id, t, 1, 2, 11, <<<<1>>>>, <<1>>,
                          [type_ |-> ContactInformation, email |-> 1]) : t \in FindTypes}

\* the alt id and namespace of a call: neither, the alt id, the namespace
AltIdQualifiers == {<<Nil, Nil>>, <<1, Nil>>, <<Nil, UNDERSCORE>>}

\* the qualifiers given to the dispatcher: each one given or left out
DispatchQualifiers ==
    {Qualifiers(restype, lcstate, name, keyword, nested_type, attr_name, Nil,
                alt[1], alt[2]) :
        restype \in FindTypes \cup {Nil}, lcstate \in {Nil, 2}, name \in {Nil, 1},
        keyword \in {Nil, 1}, nested_type \in {Nil, ContactInformation},
        attr_name \in {Nil, CONTACT_EMAIL}, alt \in AltIdQualifiers}

FindResourcesExtQualified(q) ==
    /\ call' = [op |-> "find_resources_ext", q |-> q,
                branch |-> find_resources_ext_branch(q)]
    /\ Answers(find_resources_ext_qualified(store, q, Nil, Nil, FALSE, TRUE))

NextDispatch ==
    \/ \E id \in ExtIds : \E doc \in DispatchDocs(id) : CreateExt(doc)
    \/ \E id \in ExtIds : Delete(Str(id), FALSE)
    \/ \E q \in DispatchQualifiers : FindResourcesExtQualified(q)

\* Sequential callers that store resources and call find_resources_ext with
\* any set of qualifiers
SpecDispatch == Init /\ [][NextDispatch]_vars

\* the ways a caller names the document of an anyside lookup: by its id, or by
\* the document itself, read from the store before
AnysideDocs == Refs \cup {Obj(id, TypeOf(id), TRUE, TRUE) : id \in ResIds}

NextAnyside ==
    \/ \E id \in ResIds : Create(id, TypeOf(id), 0, 2)
    \/ \E id \in AssocIds : Retire(id)
    \/ \E s \in Refs, p \in PredNames, o \in Refs : CreateAssociation(s, p, o)
    \/ \E id \in AssocIds : DeleteAssociation(Str(id))
    \/ \E a \in AnysideDocs, p \in PredNames \cup {Nil}, id_only \in BOOLEAN :
         FindAssociations(None, p, None, id_only, a)

\* Sequential callers that look up the associations around a document, naming
\* it by id or by document
SpecAnyside == Init /\ [][NextAnyside]_vars


-----------------------------------------------------------------------------
(* Properties *)

\* the non-retired associations of the store with the given triple
LiveTriple(st, s, p, o) ==
    {id \in DOMAIN st : /\ IsAssociation(st[id])
                        /\ ~st[id].retired
                        /\ st[id].s = s /\ st[id].p = p /\ st[id].o = o}

\* C1: in every reachable state there is at most one non-retired Association
\* for any (subject id, predicate, object id) triple.
C1_AtMostOneAssociationPerTriple ==
    \A s \in ResIds, p \in PredNames, o \in ResIds :
        Cardinality(LiveTriple(store, s, p, o)) <= 1

IsCreateAssociation(c) == c.op = "create_association"

\* C2: create_association(s, p, o) called twice in sequence with the same valid
\* arguments succeeds the first time and raises BadRequest the second time, and
\* the store then holds exactly the one association the first call wrote.
C2_SecondCreateIsRefused ==
    [][(/\ IsCreateAssociation(call) /\ ret.status = "ok"
        /\ IsCreateAssociation(call') /\ call' = call)
       => /\ ret'.status = "BadRequest"
          /\ store' = store
          /\ LiveTriple(store', call.subject.id, call.predicate, call.obj.id)
               = {ret.val.id}]_vars

\* a second create_association on a stored triple has been refused
C2_Witness ==
    /\ IsCreateAssociation(call)
    /\ ret.status = "BadRequest"
    /\ LiveTriple(store, call.subject.id, call.predicate, call.obj.id) # {}

RECURSIVE Ancestors(_, _)
\* the types a type extends, directly or through other types
Ancestors(t, fuel) ==
    IF fuel = 0 THEN {}
    ELSE LET parents == {e[2] : e \in {x \in Extends : x[1] = t}}
         IN  parents \cup UNION {Ancestors(q, fuel - 1) : q \in parents}

\* the type is in the set, or extends a member of it
Qualifies(t, allowed) ==
    t \in allowed \/ Ancestors(t, Cardinality(Types)) \cap allowed # {}

\* C3: for stored subject and object, create_association raises BadRequest and
\* writes nothing when the subject's type does not qualify for the predicate's
\* domain or the object's type does not qualify for its range; it succeeds and
\* writes the association when both qualify and no such edge exists yet.
C3_DomainAndRangeDecide ==
    [][(/\ IsCreateAssociation(call')
        /\ Exists(store, call'.subject.id)
        /\ Exists(store, call'.obj.id))
       => LET s == call'.subject.id
              o == call'.obj.id
              p == call'.predicate
              legal == /\ Qualifies(store[s].type_, Predicates[p].domain)
                       /\ Qualifies(store[o].type_, Predicates[p].range)
          IN  /\ ~legal => ret'.status = "BadRequest" /\ store' = store
              /\ (legal /\ LiveTriple(store, s, p, o) = {})
                   => /\ ret'.status = "ok"
                      /\ LiveTriple(store', s, p, o) = {ret'.val.id}
                      /\ \A id \in DocIds \ {ret'.val.id} : store'[id] = store[id]]_vars

\* a create_association has been refused for its subject's type
C3_Witness ==
    /\ IsCreateAssociation(call)
    /\ Exists(store, call.subject.id) /\ Exists(store, call.obj.id)
    /\ ~Qualifies(store[call.subject.id].type_, Predicates[call.predicate].domain)
    /\ Qualifies(store[call.obj.id].type_, Predicates[call.predicate].range)
    /\ ret.status = "BadRequest"

\* the associations find_objects(subject) returns, when it returns
FoundAssocs(r) == IF r.status = "ok" THEN Elems(r.val.assocs) ELSE {}

\* C4: after a successful create_association(s, p, o), find_objects(s) returns
\* an association whose object id is o's id; after delete_association of an
\* association, no find_objects(s) returns it.
C4_CreateFindDeleteRoundTrip ==
    /\ (IsCreateAssociation(call) /\ ret.status = "ok")
         => \A id_only \in BOOLEAN :
              LET r == find_objects(store, call.subject, Nil, Nil, id_only)
              IN  /\ id_only => r.status = "ok"
                  /\ r.status = "ok"
                       => \E a \in FoundAssocs(r) :
                            a._id = ret.val.id /\ a.o = call.obj.id
    /\ (/\ call.op = "delete_association" /\ call.association.kind = "str"
        /\ ret.status = "ok")
         => \A s \in Refs, id_only \in BOOLEAN :
              \A a \in FoundAssocs(find_objects(store, s, Nil, Nil, id_only)) :
                 a._id # call.association.id

\* an association between two different resources has just been created
C4_Witness ==
    /\ IsCreateAssociation(call) /\ ret.status = "ok"
    /\ call.subject.id # call.obj.id
    /\ Cardinality(FoundAssocs(find_objects(store, call.subject, Nil, Nil, TRUE))) >= 2

\* the non-retired associations that have the document on either side
LiveAround(st, id) ==
    {a \in DOMAIN st : /\ IsAssociation(st[a]) /\ ~st[a].retired
                       /\ (st[a].s = id \/ st[a].o = id)}

\* C5: once delete(doc, del_associations=True) has completed, the store holds
\* no non-retired association with doc's id as subject or object, and
\* find_associations(anyside=[id]) returns the empty list.
C5_CascadeLeavesNoEdge ==
    (/\ call.op = "delete" /\ call.del_associations /\ ret.status = "ok")
      => /\ LiveAround(store, call.obj.id) = {}
         /\ \A id_only \in BOOLEAN :
              find_associations(store, None, Nil, None, id_only,
                                List(<<call.obj.id>>), Nil) = Ok(<<>>)

\* a cascading delete has completed whose scan found two or more edges
C5_Witness ==
    /\ call.op = "delete" /\ call.del_associations /\ ret.status = "ok"
    /\ call.scanned >= 2

\* the non-retired associations a [subject, predicate, object] argument matches
Matching(st, t) ==
    {a \in DOMAIN st : /\ IsAssociation(st[a]) /\ ~st[a].retired
                       /\ st[a].s = t.subject.id /\ st[a].o = t.obj.id
                       /\ (t.predicate # Nil => st[a].p = t.predicate)}

\* C6: delete_association with a 3-element [subject, predicate, object] argument
\* deletes every non-retired association that matches the triple.
C6_TripleDeletesEveryMatch ==
    (/\ call.op = "delete_association" /\ call.association.kind = "triple"
     /\ ret.status = "ok")
      => Matching(store, call.association) = {}

NoDuplicates(seq) == \A i, j \in 1..Len(seq) : seq[i] = seq[j] => i = j

IdsOf(docs) == [k \in DOMAIN docs |-> docs[k]._id]

\* the non-retired associations of the store
LiveAssociations(st) == {d \in Docs(st) : IsAssociation(d) /\ ~d.retired}

\* what C7 says of one bulk lookup: side is "s" for find_objects_mult and "o"
\* for find_subjects_mult
BulkIsUnion(side, seeds, r) ==
    LET at(d) == IF side = "s" THEN d.s ELSE d.o
        far(d) == IF side = "s" THEN d.o ELSE d.s
        single(id) == IF side = "s"
                      THEN find_objects(store, Str(id), Nil, Nil, TRUE)
                      ELSE find_subjects(store, Nil, Nil, Str(id), TRUE)
    IN  /\ r.status = "ok"
        /\ Elems(r.val.assocs) = {d \in LiveAssociations(store) : at(d) \in Elems(seeds)}
        /\ Elems(r.val.assocs) = UNION {FoundAssocs(single(id)) : id \in Elems(seeds)}
        /\ NoDuplicates(IdsOf(r.val.assocs))
        /\ r.val.objs = [k \in DOMAIN r.val.assocs |-> far(r.val.assocs[k])]

IsBulk(c) == c.op \in {"find_objects_mult", "find_subjects_mult"}

BulkSide(c) == IF c.op = "find_objects_mult" THEN "s" ELSE "o"

\* C7 as claimed: for any list of seed ids, find_objects_mult returns exactly
\* the union over the seeds of what find_objects returns, nothing from another
\* subject and nothing twice (and find_subjects_mult likewise over object ids).
C7_BulkIsUnionForAnyList ==
    IsBulk(call) => BulkIsUnion(BulkSide(call), call.ids.ids, ret)

\* C7 as amended: the same for any list of pairwise distinct seed ids.
C7_BulkIsUnionForDistinctSeeds ==
    (IsBulk(call) /\ NoDuplicates(call.ids.ids))
      => BulkIsUnion(BulkSide(call), call.ids.ids, ret)

\* a bulk lookup of two seeds has returned an association of each
C7_Witness ==
    /\ call.op = "find_objects_mult"
    /\ Len(call.ids.ids) = 2 /\ NoDuplicates(call.ids.ids)
    /\ ret.status = "ok"
    /\ \A id \in Elems(call.ids.ids) : \E a \in Elems(ret.val.assocs) : a.s = id

\* the resources of the store that are not RETIRED
LiveResources(st) == {d \in Docs(st) : IsResource(d) /\ d.lcstate # RETIRED}

Sorted(seq, Leq(_, _)) == \A i, j \in 1..Len(seq) : i < j => Leq(seq[i], seq[j])

\* the ids a resource find returned, whichever the id_only
FoundIds(c, r) == IF c.id_only THEN r.val.objs ELSE IdsOf(r.val.objs)

\* find_res_by_type(T) returned the non-retired resources of type T, each once
ByTypeReturnsTheType ==
    /\ ret.status = "ok"
    /\ Elems(FoundIds(call, ret))
         = {d._id : d \in {x \in LiveResources(store) : x.type_ = call.restype}}
    /\ NoDuplicates(FoundIds(call, ret))
    /\ [k \in DOMAIN ret.val.assocs |-> ret.val.assocs[k].id] = FoundIds(call, ret)
    /\ \A a \in Elems(ret.val.assocs) : a.type = call.restype

IsFindByType(c) == c.op = "find_res_by_type" /\ c.restype # Nil /\ c.lcstate = Nil

\* C8 as claimed: find_res_by_type(T) returns exactly the non-retired resources
\* of type T, each once, ordered by name.
C8_ByTypeOrderedByName ==
    IsFindByType(call)
      => /\ ByTypeReturnsTheType
         /\ Sorted(FoundIds(call, ret),
                   LAMBDA a, b : store[a].name <= store[b].name)

\* the first 200 characters of a name
Prefix200(n) == n \div LongForms

\* C8 as amended: find_res_by_type(T) returns exactly the non-retired resources
\* of type T, each once, ordered by the first 200 characters of the name.
C8_ByTypeOrderedByNamePrefix ==
    IsFindByType(call)
      => /\ ByTypeReturnsTheType
         /\ Sorted(FoundIds(call, ret),
                   LAMBDA a, b : Prefix200(store[a].name) <= Prefix200(store[b].name))

\* find_res_by_type has returned two resources and left out a third
C8_Witness ==
    /\ IsFindByType(call)
    /\ ret.status = "ok"
    /\ Len(ret.val.objs) = 2
    /\ store[ret.val.assocs[1].id].name < store[ret.val.assocs[2].id].name
    /\ \E d \in Docs(store) : IsResource(d) /\ d._id \notin Elems(FoundIds(call, ret))

\* C9: find_res_by_name(N) returns exactly the non-retired resources named N,
\* of every type, ordered by type; with a type it returns those of that type.
C9_ByNameReturnsTheName ==
    call.op = "find_res_by_name"
      => /\ ret.status = "ok"
         /\ Elems(FoundIds(call, ret))
              = {d._id : d \in {x \in LiveResources(store) :
                                  /\ x.name = call.name
                                  /\ call.restype # Nil => x.type_ = call.restype}}
         /\ NoDuplicates(FoundIds(call, ret))
         /\ Sorted(FoundIds(call, ret),
                   LAMBDA a, b : store[a].type_ <= store[b].type_)

\* find_res_by_name has returned resources of two types, and another name exists
C9_Witness ==
    /\ call.op = "find_res_by_name" /\ call.restype = Nil
    /\ ret.status = "ok"
    /\ Len(ret.val.objs) = 2
    /\ store[ret.val.objs[1]].type_ < store[ret.val.objs[2]].type_
    /\ \E d \in LiveResources(store) : d.name # call.name

\* the non-retired associations with the given end, predicate and far type;
\* Nil leaves the predicate or the type open
Narrowed(side, id, predicate, type) ==
    {d \in LiveAssociations(store) :
        /\ (IF side = "s" THEN d.s ELSE d.o) = id
        /\ predicate # Nil => d.p = predicate
        /\ type # Nil => (IF side = "s" THEN d.ot ELSE d.st) = type}

IsTraversal(c) == c.op \in {"find_objects", "find_subjects"}

TraversalSide(c) == IF c.op = "find_objects" THEN "s" ELSE "o"

TraversalEnd(c) == IF c.op = "find_objects" THEN c.subject.id ELSE c.obj.id

\* C10: find_objects(s) returns every non-retired association with subject s,
\* find_objects(s, p) those of them with predicate p, find_objects(s, p, t)
\* those of them with predicate p and object type t, so each result is a
\* subset of the one before (and find_subjects likewise).
C10_TraversalNarrows ==
    (IsTraversal(call) /\ ret.status = "ok")
      => LET side == TraversalSide(call)
             id == TraversalEnd(call)
             one(p, t) == IF side = "s"
                          THEN find_objects(store, Str(id), p, t, TRUE)
                          ELSE find_subjects(store, t, p, Str(id), TRUE)
         IN  /\ Elems(ret.val.assocs) = Narrowed(side, id, call.predicate, call.type)
             /\ NoDuplicates(IdsOf(ret.val.assocs))
             /\ Elems(ret.val.assocs) \subseteq FoundAssocs(one(call.predicate, Nil))
             /\ FoundAssocs(one(call.predicate, Nil)) \subseteq FoundAssocs(one(Nil, Nil))
             /\ FoundAssocs(one(Nil, Nil)) = Narrowed(side, id, Nil, Nil)

\* a find_objects(s, p, t) has returned an edge and left out one of another type
C10_Witness ==
    /\ call.op = "find_objects" /\ call.predicate # Nil /\ call.type # Nil
    /\ ret.status = "ok"
    /\ ret.val.assocs # <<>>
    /\ \E d \in LiveAssociations(store) :
         d.s = call.subject.id /\ d.p = call.predicate /\ d.ot # call.type

-----------------------------------------------------------------------------
(* C11: pagination of the range scans *)

IsFindResourcesExt(c) == c.op = "find_resources_ext"

\* the call scans a key range: it names a type, a state, a name or an alt id
IsRangeQuery(c) ==
    /\ IsFindResourcesExt(c)
    /\ c.restype # Nil \/ c.lcstate # Nil \/ c.name # Nil \/ c.alt_id # Nil
          \/ c.alt_id_ns # Nil

\* the same query without pagination, ascending
Unpaged(c) ==
    find_resources_ext(store, c.restype, c.lcstate, c.name, c.alt_id, c.alt_id_ns,
                       Nil, Nil, FALSE, TRUE)

\* the ids a query with limit=1 must return, given the ids of the unpaged
\* query: one id, and the last one when the scan is descending
LimitOneOf(c, r, all) ==
    \/ all.status # "ok"
    \/ all.val.objs = <<>>
    \/ /\ r.status = "ok"
       /\ Len(r.val.objs) = 1
       /\ c.descending => r.val.objs[1] = all.val.objs[Len(all.val.objs)]

\* C11: a range query with at least one matching row returns exactly one row
\* under limit=1, and under descending=true and limit=1 that row is the last
\* row of the same query run ascending.
C11_LimitOneAndDescendingLast ==
    (IsRangeQuery(call) /\ call.limit = 1 /\ call.skip = Nil)
        => LimitOneOf(call, ret, Unpaged(call))

\* C11, ascending scans only: limit=1 returns exactly the first row.
C11_LimitOneAscending ==
    (IsRangeQuery(call) /\ call.limit = 1 /\ call.skip = Nil /\ ~call.descending)
        => \/ Unpaged(call).status # "ok"
           \/ Unpaged(call).val.objs = <<>>
           \/ ret.status = "ok" /\ ret.val.objs = <<Unpaged(call).val.objs[1]>>

-----------------------------------------------------------------------------
(* C12: concurrent create_association for one triple *)

\* caller c ends create_association in this step (its write)
Writes(c) == pc[c] = "write" /\ pc'[c] = "idle"

\* C12: two concurrent create_association calls for one triple can both pass
\* the duplicate check and both persist. The write of a caller that passed
\* the check succeeds and adds a non-retired association for its triple,
\* whatever the store holds by then.
C12_WriteAfterCheckPersists ==
    [][\A c \in Callers :
          Writes(c) =>
            /\ ret'.status = "ok"
            /\ Cardinality(LiveTriple(store', found[c].s, found[c].p, found[c].o))
                 = Cardinality(LiveTriple(store, found[c].s, found[c].p, found[c].o)) + 1]_vars

\* both calls have returned with success and the store holds two non-retired
\* associations for the triple of the call
C12_Witness ==
    /\ IsCreateAssociation(call) /\ ret.status = "ok"
    /\ \A c \in Callers : pc[c] = "idle"
    /\ Cardinality(LiveTriple(store, call.subject.id, call.predicate, call.obj.id)) = 2

-----------------------------------------------------------------------------
(* C13: delete without del_associations *)

IsPlainDelete(c) == c.op = "delete" /\ ~c.del_associations /\ c.obj.kind = "str"

\* the non-retired associations with id as subject or object
LiveReferences(st, id) ==
    {k \in DOMAIN st : /\ IsAssociation(st[k]) /\ ~st[k].retired
                       /\ st[k].s = id \/ st[k].o = id}

\* C13: delete of a stored document with del_associations=False removes the
\* document, raises no error, and leaves every other document, so every
\* association, as it was -- also those that reference the document.
C13_PlainDeleteLeavesAssociations ==
    [][(IsPlainDelete(call') /\ Exists(store, call'.obj.id))
          => /\ ret'.status = "ok"
             /\ store'[call'.obj.id] = Absent
             /\ \A k \in DOMAIN store \ {call'.obj.id} : store'[k] = store[k]]_vars

\* a document was deleted without del_associations and a non-retired
\* association still names it
C13_Witness ==
    /\ IsPlainDelete(call) /\ ret.status = "ok"
    /\ store[call.obj.id] = Absent
    /\ LiveReferences(store, call.obj.id) # {}

-----------------------------------------------------------------------------
(* C14, C15: arguments refused before the index is read *)

IsFindAssociations(c) == c.op = "find_associations"

\* an argument is given when Python takes it for true: an id, a document, a
\* list that holds an id
Given(v) == Truthy(v)

IsIdList(v) == v.kind = "list" /\ Given(v)

\* the three shapes of arguments that find_associations refuses
AnysideListWithPredicate(c) == IsIdList(c.anyside) /\ c.predicate # Nil
AnysideWithSubjectOrObject(c) ==
    Given(c.anyside) /\ (Given(c.subject) \/ Given(c.obj))
NothingGiven(c) ==
    ~(Given(c.subject) \/ c.predicate # Nil \/ Given(c.obj) \/ Given(c.anyside))

\* C14: find_associations raises BadRequest, and sends no index query, when
\* anyside is a list of ids and a predicate is given, when anyside comes with
\* a subject or an object, and when none of subject, predicate, object and
\* anyside is given.
C14_FindAssociationsRefusesArguments ==
    (/\ IsFindAssociations(call)
     /\ \/ AnysideListWithPredicate(call)
        \/ AnysideWithSubjectOrObject(call)
        \/ NothingGiven(call))
        => ret.status = "BadRequest" /\ call.queries = 0

\* anyside was given with a subject that has an association in the store, and
\* the call was refused
C14_Witness ==
    /\ IsFindAssociations(call)
    /\ AnysideWithSubjectOrObject(call) /\ ~AnysideListWithPredicate(call)
    /\ Given(call.subject)
    /\ LiveReferences(store, call.subject.id) # {}
    /\ ret.status = "BadRequest"

IsFindObjects(c) == c.op = "find_objects"
IsFindSubjects(c) == c.op = "find_subjects"

\* C15: find_objects given an object type and no predicate, and find_subjects
\* given a subject type and no predicate, raise BadRequest and send no query.
C15_TypeWithoutPredicateRefused ==
    ((IsFindObjects(call) \/ IsFindSubjects(call))
        /\ call.type # Nil /\ call.predicate = Nil)
        => ret.status = "BadRequest" /\ call.queries = 0

\* find_objects was given a type and no predicate for a subject that has an
\* association in the store, and the call was refused
C15_Witness ==
    /\ IsFindObjects(call) /\ call.type # Nil /\ call.predicate = Nil
    /\ LiveReferences(store, call.subject.id) # {}
    /\ ret.status = "BadRequest"

-----------------------------------------------------------------------------
(* C16: find_resources_ext with a type alone and with no qualifier *)

NoOtherQualifier(c) ==
    c.lcstate = Nil /\ c.name = Nil /\ c.alt_id = Nil /\ c.alt_id_ns = Nil

IsTypeAlone(c) == IsFindResourcesExt(c) /\ c.restype # Nil /\ NoOtherQualifier(c)
IsUnqualified(c) == IsFindResourcesExt(c) /\ c.restype = Nil /\ NoOtherQualifier(c)

FilterOf(c) == [limit |-> c.limit, skip |-> c.skip, descending |-> c.descending]

\* the ids in seq are exactly ids, each once
Lists(seq, ids) == Elems(seq) = ids /\ Len(seq) = Cardinality(ids)

\* the ids returned are the page the filter cuts out of a listing of ids
PageOf(c, r, ids) ==
    /\ r.status = "ok"
    /\ Lists(Unpaged(c).val.objs, ids)
    /\ r.val.objs = Paginate(IF c.descending THEN Reverse(Unpaged(c).val.objs)
                             ELSE Unpaged(c).val.objs, FilterOf(c))

ResourcesOf(st) == {d \in Docs(st) : IsResource(d)}

\* find_resources_ext with a type alone, scanned ascending, returns the
\* non-retired resources of the type
TypeAloneReturnsTheType ==
    (IsTypeAlone(call) /\ ~call.descending)
        => PageOf(call, ret,
                  {d._id : d \in {x \in LiveResources(store) : x.type_ = call.restype}})

-----------------------------------------------------------------------------
(* C17: the index registry *)

IsGetCouchViewDesigns(c) == c.op = "get_couch_view_designs"

\* the lookup of a defined profile returns its categories and no other, each
\* with the index definitions of COUCHDB_VIEWS
ReturnsTheCategories(c, r) ==
    /\ r.status = "ok"
    /\ DOMAIN r.val = Elems(COUCHDB_CONFIGS[c.config])
    /\ \A view \in DOMAIN r.val : r.val[view] = COUCHDB_VIEW_NAMES[view]

\* the lookup of every defined profile returns exactly its categories, an
\* empty mapping for BASIC and STATE
C17_DefinedProfiles ==
    (IsGetCouchViewDesigns(call) /\ call.config \in DOMAIN COUCHDB_CONFIGS)
        => /\ ReturnsTheCategories(call, ret)
           /\ call.config \in {"BASIC", "STATE"} => DOMAIN ret.val = {}

\* C17: the registry lookup for a profile returns exactly the index
\* categories listed for the profile, each mapped to its index definitions
\* (an empty mapping for BASIC and STATE), and fails with ConfigurationError
\* for a profile name that is not defined.
C17_RegistryLookup ==
    IsGetCouchViewDesigns(call)
        => IF call.config \in DOMAIN COUCHDB_CONFIGS
           THEN ReturnsTheCategories(call, ret)
           ELSE ret.status = "ConfigurationError"

-----------------------------------------------------------------------------
(* C18: arguments refused by create_association *)

\* one of subject, predicate and object is missing
Missing(c) == ~Given(c.subject) \/ c.predicate = Nil \/ ~Given(c.obj)

\* v is a document without an id or without a revision
LacksIdOrRev(v) == v.kind = "obj" /\ (~v.has_id \/ ~v.has_rev)

UndefinedPred(c) == c.predicate # Nil /\ c.predicate \notin DOMAIN Predicates

\* v is an id under which st holds no document
Unstored(st, v) == v.kind = "str" /\ ~Exists(st, v.id)

\* the calls the claim is about
Refused(c) ==
    /\ IsCreateAssociation(c)
    /\ \/ Missing(c)
       \/ LacksIdOrRev(c.subject) \/ LacksIdOrRev(c.obj)
       \/ UndefinedPred(c)

\* the read of a subject or object given by id fails before the check that
\* would refuse the call
ReadFailsFirst(st, c) ==
    /\ ~Missing(c)
    /\ \/ Unstored(st, c.subject)
       \/ ~LacksIdOrRev(c.subject) /\ Unstored(st, c.obj)

\* C18 as stated: create_association raises BadRequest and persists no
\* association when subject, predicate or object is missing, when a subject
\* or object passed as a document lacks an id or a revision, or when the
\* predicate is not defined.
C18_RefusedWithBadRequest ==
    [][Refused(call') => ret'.status = "BadRequest" /\ store' = store]_vars

\* C18 amended: in each of these cases nothing is persisted; the call raises
\* BadRequest, unless a subject or object given by id is not stored and its
\* read comes before the failing check, and then it raises NotFound.
C18_RefusedAndNothingPersisted ==
    [][Refused(call')
          => /\ store' = store
             /\ ret'.status = IF ReadFailsFirst(store, call') THEN "NotFound"
                              ELSE "BadRequest"]_vars

\* subject and object are stored and of types that a defined predicate
\* permits, the predicate given is not defined, and the call was refused
C18_Witness ==
    /\ IsCreateAssociation(call) /\ UndefinedPred(call)
    /\ call.subject.kind = "str" /\ Exists(store, call.subject.id)
    /\ call.obj.kind = "str" /\ Exists(store, call.obj.id)
    /\ \E p \in PredNames :
          /\ type_permitted(store[call.subject.id].type_, Predicates[p].domain)
          /\ type_permitted(store[call.obj.id].type_, Predicates[p].range)
    /\ ret.status = "BadRequest"

-----------------------------------------------------------------------------
(* C19: the range of a prefix *)

\* key extends prefix
IsPrefix(prefix, key) ==
    Len(prefix) <= Len(key) /\ SubSeq(key, 1, Len(prefix)) = prefix

\* a call that scans a range of by_name, by_altid or by_type, ascending and
\* without limit or skip
IsPlainScan(c) ==
    /\ IsRangeQuery(c)
    /\ c.limit = Nil /\ c.skip = Nil /\ ~c.descending
    /\ c.lcstate = Nil

IsAltIdScan(c) == c.name = Nil /\ (c.alt_id # Nil \/ c.alt_id_ns # Nil)
IsNamespaceScan(c) == IsPlainScan(c) /\ c.name = Nil /\ c.alt_id = Nil /\ c.alt_id_ns # Nil

\* the index a plain scan reads and the start key it gives
ScanIndex(c) ==
    IF c.name # Nil THEN "by_name" ELSE IF IsAltIdScan(c) THEN "by_altid" ELSE "by_type"
ScanKey(c) ==
    IF c.name # Nil THEN key_by_name(c.name, c.restype)
    ELSE IF IsAltIdScan(c) THEN key_by_altid(c.alt_id, c.alt_id_ns)
    ELSE <<c.restype>>

\* the rows of the index whose key extends the start key, in index order;
\* of these a lookup by namespace alone keeps the rows of the namespace
Extending(st, c) ==
    SelectSeq(View(ScanIndex(c), st),
              LAMBDA row : /\ IsPrefix(ScanKey(c), row.key)
                           /\ (c.name = Nil /\ c.alt_id = Nil /\ c.alt_id_ns # Nil)
                                 => row.key[2] = c.alt_id_ns)

\* every row that extends the start key is returned, and no other
ScanReturnsThePrefix ==
    IsPlainScan(call)
        => /\ ret.status = "ok"
           /\ ret.val.objs = [k \in DOMAIN Extending(store, call) |->
                                 Extending(store, call)[k].id]

\* the namespace of an alt id: the part before ':', "_" for a bare value
NamespaceOf(parts) == IF Len(parts) = 2 THEN parts[1] ELSE UNDERSCORE

\* the resources among docs that have an alt id in namespace ns
InNamespace(docs, ns) ==
    {d._id : d \in {x \in docs : \E i \in DOMAIN x.alt_ids :
                                     NamespaceOf(x.alt_ids[i]) = ns}}

\* C19 as stated: a scan from a key to the key with the maximal sentinel
\* appended returns every row whose key extends the key; given a namespace
\* alone, find_res_by_alternative_id scans the whole index and returns every
\* resource that has an alt id in the namespace.
C19_NamespaceReturnsEveryResource ==
    /\ ScanReturnsThePrefix
    /\ IsNamespaceScan(call)
         => Elems(ret.val.objs) = InNamespace(ResourcesOf(store), call.alt_id_ns)

\* C19 amended: as above, for the resources that are not retired.
C19_NamespaceReturnsEveryLiveResource ==
    /\ ScanReturnsThePrefix
    /\ IsNamespaceScan(call)
         => Elems(ret.val.objs) = InNamespace(LiveResources(store), call.alt_id_ns)

\* a namespace alone was given, the index holds rows of two namespaces, and
\* the resource of the namespace asked for was returned
C19_Witness ==
    /\ IsNamespaceScan(call) /\ ret.status = "ok"
    /\ ret.val.objs # <<>>
    /\ \E row \in Elems(View("by_altid", store)) : row.key[2] # call.alt_id_ns

-----------------------------------------------------------------------------
(* C20: find_res_by_lcstate *)

\* a call that the dispatcher hands to find_res_by_lcstate, scanned ascending
\* and without limit or skip
IsLcStateScan(c) ==
    /\ IsFindResourcesExt(c)
    /\ c.lcstate # Nil /\ c.name = Nil /\ c.alt_id = Nil /\ c.alt_id_ns = Nil
    /\ c.limit = Nil /\ c.skip = Nil /\ ~c.descending

\* the state used: the part of a compound state before the first '_'
StateUsed(c) == IF has_underscore(c.lcstate) THEN split_first(c.lcstate) ELSE c.lcstate

\* the resources whose availability (for an availability state) or maturity
\* state (for any other) is the state used, of the type given if one is
HaveTheState(st, c) ==
    {d._id : d \in {x \in ResourcesOf(st) :
                       /\ IF StateUsed(c) \in AVAILABILITY
                          THEN x.availability = StateUsed(c)
                          ELSE x.lcstate = StateUsed(c)
                       /\ c.restype # Nil => x.type_ = c.restype}}

C20_AvailabilityWitness ==
    /\ IsLcStateScan(call) /\ call.lcstate \in AVAILABILITY
    /\ ret.status = "ok"
    /\ \E id \in Elems(ret.val.objs) : store[id].lcstate = RETIRED

-----------------------------------------------------------------------------
(* C21: the alt-id index and its lookups *)

\* the alt ids a document carries
AltIdsOf(d) == IF Has(d, "alt_ids") THEN Elems(d.alt_ids) ELSE {}

\* the value of an alt id: the part after ':', the whole alt id when it is
\* not of the form "namespace:value"
ValueOf(parts) == IF Len(parts) = 2 THEN parts[2] ELSE altid_string(parts)

\* d has the alt id value in the namespace, in any namespace when none is given
HasAltId(d, alt_id, ns) ==
    \E parts \in AltIdsOf(d) :
        ValueOf(parts) = alt_id /\ (ns # Nil => NamespaceOf(parts) = ns)

\* d carries no alt_ids and its uirefid is the value, looked up in any
\* namespace or in "UIREFID"
HasUiRefId(d, alt_id, ns) ==
    /\ ~Has(d, "alt_ids") /\ Has(d, "uirefid")
    /\ d.uirefid = alt_id /\ (ns # Nil => ns = UIREFID)

\* the rows the index holds for document d, by position and key
AltIdRows(st, d) ==
    {<<row.n, row.key>> : row \in {r \in Elems(View("by_altid", st)) : r.id = d._id}}

\* the index holds one entry per alt id of each non-retired resource, under
\* [value, namespace], and under [altId, "_"] without a namespace
IndexHoldsAltIds ==
    \A d \in LiveResources(store) :
        Has(d, "alt_ids")
            => AltIdRows(store, d)
                 = {<<i, <<ValueOf(d.alt_ids[i]), NamespaceOf(d.alt_ids[i])>>>> :
                      i \in DOMAIN d.alt_ids}

IsFindByAltId(c) == c.op = "find_res_by_alternative_id" /\ c.alt_id # Nil

\* C21 as stated: the index holds one entry per alt id of each non-retired
\* resource, "namespace:value" under [value, namespace] and a bare alt id
\* under [altId, "_"]; the lookup of (alt_id, ns) returns exactly the
\* resources having that alt id in that namespace, and the lookup of alt_id
\* alone those having the value in any namespace.
C21_LookupReturnsTheAltId ==
    /\ IndexHoldsAltIds
    /\ IsFindByAltId(call)
         => /\ ret.status = "ok"
            /\ Elems(ret.val.objs)
                 = {d._id : d \in {x \in LiveResources(store) :
                                      HasAltId(x, call.alt_id, call.alt_id_ns)}}

\* C21 amended: as above, and the lookup also returns the non-retired
\* resources that carry no alt_ids and whose uirefid is the value, as if they
\* had the alt id "UIREFID:value".
C21_LookupReturnsAltIdOrUiRefId ==
    /\ IndexHoldsAltIds
    /\ IsFindByAltId(call)
         => /\ ret.status = "ok"
            /\ Elems(ret.val.objs)
                 = {d._id : d \in {x \in LiveResources(store) :
                                      \/ HasAltId(x, call.alt_id, call.alt_id_ns)
                                      \/ HasUiRefId(x, call.alt_id, call.alt_id_ns)}}

\* a value alone was looked up; one resource returned has the value as an alt
\* id in a namespace, the other has it as its uirefid
C21_Witness ==
    /\ IsFindByAltId(call) /\ call.alt_id_ns = Nil /\ ret.status = "ok"
    /\ \E a, b \in Elems(ret.val.objs) :
          /\ \E parts \in AltIdsOf(store[a]) : Len(parts) = 2
          /\ HasUiRefId(store[b], call.alt_id, Nil)

-----------------------------------------------------------------------------
(* C22: partial failure of a bulk delete *)

IsDeleteMult(c) == c.op = "delete_mult"

\* a cascading delete that has returned
IsCascadeReturn(c) == c.op = "delete" /\ c.del_associations /\ c.step = "doc"

\* the outcomes returned name every id whose delete failed
NamesTheFailures(outcomes, failed) ==
    \A id \in failed : \E k \in DOMAIN outcomes :
        outcomes[k].id = id /\ ~outcomes[k].success

\* delete_mult returns one outcome per id, and the failed ones as failed
C22_DeleteMultReturnsOutcomes ==
    IsDeleteMult(call)
        => /\ ret.status = "ok"
           /\ Len(ret.val) = Len(call.ids)
           /\ NamesTheFailures(ret.val, call.failed)

\* C22: a partial failure of a bulk operation reaches the caller as per-item
\* outcomes; when the bulk delete of the associations inside
\* delete(doc, del_associations=True) fails for some associations, the
\* caller of delete learns of it: delete raises, or returns the outcomes.
C22_CascadeFailureSurfaced ==
    /\ C22_DeleteMultReturnsOutcomes
    /\ (IsCascadeReturn(call) /\ call.failed # {})
         => ret.status # "ok" \/ ret.val # None

-----------------------------------------------------------------------------
(* C23: the documents that the association operations touch *)

IsAssociationOperation(c) == c.op \in {"create_association", "delete_association"}

\* every document of st that is not an association is in st2 as it was
ResourcesKept(st, st2) ==
    \A id \in DOMAIN st : IsResource(st[id]) => st2[id] = st[id]

\* a delete_association that names an association: by a triple, or by the id
\* of a document that is an association or is not stored
NamesAnAssociation(st, c) ==
    c.op = "delete_association"
        => \/ c.association.kind = "triple"
           \/ c.association.kind = "str" /\ ~IsResource(st[c.association.id])

\* C23: create_association and delete_association leave every document that
\* is not an association unchanged; deleting an association never deletes
\* its subject or its object.
C23_AssociationOperationsKeepResources ==
    [][IsAssociationOperation(call') => ResourcesKept(store, store')]_vars

\* create_association, and delete_association of a triple or of the id of an
\* association, leave every document that is not an association unchanged
C23_NamedAssociationsKeepResources ==
    [][(IsAssociationOperation(call') /\ NamesAnAssociation(store, call'))
          => ResourcesKept(store, store')]_vars

-----------------------------------------------------------------------------
(* C24: retired associations *)

IsAssociationFind(c) ==
    c.op \in {"find_associations", "find_objects", "find_subjects",
              "find_objects_mult", "find_subjects_mult"}

\* the ids of the associations a find returned
ReturnedAssociationIds(c, r) ==
    IF r.status # "ok" THEN {}
    ELSE IF c.op = "find_associations"
    THEN (IF c.id_only THEN Elems(r.val) ELSE {a._id : a \in Elems(r.val)})
    ELSE {a._id : a \in Elems(r.val.assocs)}

\* the retired associations of the store with the given triple
RetiredTriple(st, s, p, o) ==
    {id \in DOMAIN st : /\ IsAssociation(st[id]) /\ st[id].retired
                        /\ st[id].s = s /\ st[id].p = p /\ st[id].o = o}

\* no find returns an association whose retired flag is set
NoRetiredReturned ==
    IsAssociationFind(call)
        => \A id \in ReturnedAssociationIds(call, ret) : ~store[id].retired

\* create_association of a triple whose only associations are retired
\* succeeds and writes the association
RetiredIsNoDuplicate ==
    (/\ IsCreateAssociation(call')
     /\ Exists(store, call'.subject.id) /\ Exists(store, call'.obj.id)
     /\ Qualifies(store[call'.subject.id].type_, Predicates[call'.predicate].domain)
     /\ Qualifies(store[call'.obj.id].type_, Predicates[call'.predicate].range)
     /\ RetiredTriple(store, call'.subject.id, call'.predicate, call'.obj.id) # {}
     /\ LiveTriple(store, call'.subject.id, call'.predicate, call'.obj.id) = {})
        => /\ ret'.status = "ok"
           /\ LiveTriple(store', call'.subject.id, call'.predicate, call'.obj.id)
                = {ret'.val.id}

\* C24: an association whose retired flag is set is returned by none of
\* find_associations, find_objects, find_subjects, find_objects_mult and
\* find_subjects_mult, and does not count in the duplicate check of
\* create_association, so the same triple can be created again.
C24_RetiredIsNeitherFoundNorDuplicate ==
    []NoRetiredReturned /\ [][RetiredIsNoDuplicate]_vars

\* a triple was created again while the store holds a retired association
\* of the same triple
C24_Witness ==
    /\ IsCreateAssociation(call) /\ ret.status = "ok"
    /\ RetiredTriple(store, call.subject.id, call.predicate, call.obj.id) # {}

\* a find around a document returned an association and left out the retired
\* one around the same document
C24_FindWitness ==
    /\ call.op = "find_objects" /\ ret.status = "ok"
    /\ ret.val.assocs # <<>>
    /\ \E id \in DOMAIN store :
          /\ IsAssociation(store[id]) /\ store[id].retired
          /\ store[id].s = call.subject.id

-----------------------------------------------------------------------------
(* C25: row projection *)

IsParseResults == call.op = "_parse_results" /\ ret.status = "ok"

\* the projection of a mapping or row: the given keys, each with the
\* projection of its value
KeepsKeys(projected, fields, keys) ==
    /\ projected.kind = "dict"
    /\ DOMAIN projected.fields = keys
    /\ \A key \in keys : projected.fields[key] = _parse_results(fields[key])

\* the projection of a sequence: the projections of its elements, in order
KeepsOrder(projected, items) ==
    /\ projected.kind = "list"
    /\ Len(projected.items) = Len(items)
    /\ \A k \in DOMAIN items : projected.items[k] = _parse_results(items[k])

IsDocument(doc) == doc.kind = "dict" /\ "_id" \in DOMAIN doc.fields

\* C25: _parse_results is structurally recursive: a results object gives the
\* list of its projected rows in order; a row gives a mapping with key and
\* value always and with id and doc only when the row carries them, each
\* projected; a list gives the list of its projected elements in order; a
\* mapping with an '_id' is converted by the deserializer and not recursed
\* into; any other mapping keeps its keys with projected values; a primitive
\* is returned unchanged.
C25_ProjectionIsStructural ==
    IsParseResults =>
        LET doc == call.doc
            projected == ret.val
        IN  CASE doc.kind = "ViewResults" -> KeepsOrder(projected, doc.rows)
              [] doc.kind = "Row" ->
                    KeepsKeys(projected, doc.fields,
                              {"key", "value"} \cup (DOMAIN doc.fields \cap {"id", "doc"}))
              [] doc.kind = "list" -> KeepsOrder(projected, doc.items)
              [] IsDocument(doc) ->
                    /\ projected = deserialize(doc)
                    /\ projected.fields = doc.fields
              [] doc.kind = "dict" /\ ~IsDocument(doc) ->
                    KeepsKeys(projected, doc.fields, DOMAIN doc.fields)
              [] OTHER -> projected = doc

\* the results of a query were projected, one row with an id and a document,
\* and the document of the row came back converted
C25_Witness ==
    /\ IsParseResults
    /\ call.doc.kind = "ViewResults"
    /\ \E k \in DOMAIN call.doc.rows :
          /\ {"id", "doc"} \subseteq DOMAIN call.doc.rows[k].fields
          /\ ret.val.items[k].fields["doc"].kind = "IonObject"
          /\ ret.val.items[k].fields["id"] = call.doc.rows[k].fields["id"]

\* a document holding a document was projected
C25_DocumentWitness ==
    /\ IsParseResults
    /\ IsDocument(call.doc)
    /\ \E key \in DOMAIN call.doc.fields : IsDocument(call.doc.fields[key])

-----------------------------------------------------------------------------
(* C26: order of the cascading delete *)

IsCascadeStep(c, step) ==
    c.op = "delete" /\ c.del_associations /\ c.step = step

\* a step after which a document that was in the store is gone
Removes(id) == Exists(store, id) /\ ~Exists(store', id)

\* the document of a cascading delete goes with the third store call, after
\* the bulk delete of the associations the scan found has been issued
DocumentGoesLast ==
    \A id \in ResIds :
        Removes(id) =>
            /\ IsCascadeStep(call', "doc")
            /\ call'.obj.id = id
            /\ pc[call'.caller] = "bulk_done"
            /\ found[call'.caller].doc_id = id

\* a scan or a bulk delete that raises ends the delete with the document as
\* it was
RaiseKeepsDocument ==
    (/\ IsCascadeStep(call', "scan") \/ IsCascadeStep(call', "bulk")
     /\ ret'.status = "ServerError")
        => /\ store'[call'.obj.id] = store[call'.obj.id]
           /\ pc'[call'.caller] = "idle"

\* C26: in delete(doc, del_associations=True) the association deletes are
\* issued before the document delete: a step that removes the document is
\* taken only once the bulk delete of the associations found by the anyside
\* scan has been issued, and if the scan or the bulk delete raises the
\* document is still in the store.
C26_AssociationsBeforeDocument ==
    [][DocumentGoesLast /\ RaiseKeepsDocument]_vars

\* the document of a cascading delete is gone, and so is an association the
\* scan had found around it
C26_Witness ==
    /\ IsCascadeStep(call, "doc") /\ ret.status = "ok"
    /\ ~Exists(store, call.obj.id)
    /\ \E id \in AssocIds : ~Exists(store, id) /\ id \notin call.failed

\* the bulk delete of a cascading delete raised and the document is in the
\* store, with an association around it
C26_RaiseWitness ==
    /\ IsCascadeStep(call, "bulk") /\ ret.status = "ServerError"
    /\ Exists(store, call.obj.id)
    /\ LiveAround(store, call.obj.id) # {}

-----------------------------------------------------------------------------
(* C27: the anyside scan of the cascading delete *)

\* how often an id occurs in a list
Occurrences(seq, id) == Cardinality({k \in DOMAIN seq : seq[k] = id})

\* the scan of a cascading delete has just returned: found[c] holds the list
\* of association ids it hands to the bulk delete
Scanned(c) ==
    /\ pc[c] = "scanned"
    /\ call.op = "delete" /\ call.step = "scan" /\ call.caller = c

\* C27: find_associations(anyside=id) returns each matching association at
\* most once, an association whose subject and object are the same document
\* included, so the id list handed to the cascade bulk delete contains no
\* association id twice.
C27_CascadeListHasNoIdTwice ==
    \A c \in CascadeCallers : Scanned(c) => NoDuplicates(found[c].assoc_ids)

\* what the scan returns: every non-retired association around the document,
\* once when its subject and object differ and twice when they are the same
C27_OncePerSide ==
    \A c \in CascadeCallers :
        Scanned(c) =>
            \A id \in AssocIds :
                Occurrences(found[c].assoc_ids, id) =
                    IF id \in LiveAround(store, found[c].doc_id)
                    THEN (IF store[id].s = store[id].o THEN 2 ELSE 1)
                    ELSE 0

-----------------------------------------------------------------------------
(* C28: anyside lookups with a predicate *)

\* find_associations(anyside=X, predicate=p) with X an id or a document
IsAnysideWithPredicate(c) ==
    /\ IsFindAssociations(c)
    /\ ~Given(c.subject) /\ ~Given(c.obj)
    /\ c.anyside.kind \in {"str", "obj"}
    /\ c.predicate # Nil

\* the id of the document an anyside argument names
AnysideId(anyside) == IF anyside.kind = "str" THEN anyside.id ELSE anyside._id

\* the non-retired associations with the predicate around the document
LiveAroundWith(st, id, p) == {a \in LiveAround(st, id) : st[a].p = p}

\* the ids of the associations a find_associations returned
FoundAssociationIds(c, r) ==
    IF c.id_only THEN Elems(r.val) ELSE {a._id : a \in Elems(r.val)}

\* C28: find_associations(anyside=X, predicate=p) returns exactly the
\* non-retired associations with predicate p in which X's id is the subject
\* or the object, and the same result whether X is an id string or a document
\* object carrying that id.
C28_AnysideByIdOrDocument ==
    IsAnysideWithPredicate(call) =>
        /\ ret.status = "ok"
        /\ FoundAssociationIds(call, ret)
             = LiveAroundWith(store, AnysideId(call.anyside), call.predicate)
        /\ ret = find_associations(store, None, call.predicate, None, call.id_only,
                                   Str(AnysideId(call.anyside)), Nil)

\* what holds: with X an id string the associations returned are exactly the
\* non-retired ones with the predicate around the id
C28_AnysideByIdExact ==
    (IsAnysideWithPredicate(call) /\ call.anyside.kind = "str") =>
        /\ ret.status = "ok"
        /\ FoundAssociationIds(call, ret)
             = LiveAroundWith(store, call.anyside.id, call.predicate)

\* without a predicate the document and its id give the same result
C28_WithoutPredicateSame ==
    (/\ IsFindAssociations(call) /\ call.predicate = Nil
     /\ call.anyside.kind = "obj")
        => /\ ret.status = "ok"
           /\ ret = find_associations(store, None, Nil, None, call.id_only,
                                      Str(call.anyside._id), Nil)

-----------------------------------------------------------------------------
(* C29: the dispatch of find_resources_ext *)

IsDispatch(c) == c.op = "find_resources_ext" /\ "q" \in DOMAIN c

\* the qualifier groups in the order of their priority: name, keyword,
\* alt_id / alt_id_ns, nested_type, type + attr_name, type + lcstate, type,
\* lcstate, none
Supplied(q, g) ==
    CASE g = 1 -> q.name # Nil
      [] g = 2 -> q.keyword # Nil
      [] g = 3 -> q.alt_id # Nil \/ q.alt_id_ns # Nil
      [] g = 4 -> q.nested_type # Nil
      [] g = 5 -> q.restype # Nil /\ q.attr_name # Nil
      [] g = 6 -> q.restype # Nil /\ q.lcstate # Nil
      [] g = 7 -> q.restype # Nil
      [] g = 8 -> q.lcstate # Nil
      [] OTHER -> TRUE

\* the find operation of each group
OperationOf ==
    <<"find_res_by_name", "find_res_by_keyword", "find_res_by_alternative_id",
      "find_res_by_nested_type", "find_res_by_attribute", "find_res_by_lcstate",
      "find_res_by_type", "find_res_by_lcstate", "find_res_by_type">>

\* the first group, in the order of priority, that a call supplies
FirstGroup(q) ==
    CHOOSE g \in 1..9 : Supplied(q, g) /\ \A h \in 1..(g - 1) : ~Supplied(q, h)

\* the qualifiers that make up each group
MembersOf ==
    <<{"name"}, {"keyword"}, {"alt_id", "alt_id_ns"}, {"nested_type"},
      {"restype", "attr_name", "attr_value"}, {"restype", "lcstate"}, {"restype"},
      {"lcstate"}, {}>>

\* the call with the qualifiers outside the given ones left out
Only(q, kept) == [f \in DOMAIN q |-> IF f \in kept THEN q[f] ELSE Nil]

NameWithLcState(q) == q.name # Nil /\ q.lcstate # Nil

\* a call goes to the operation of the first group it supplies and returns
\* its result; it is refused only for a name with a lifecycle state
DispatchedByPriority ==
    IsDispatch(call) =>
        /\ call.branch # "None"
        /\ ret.status = "BadRequest" <=> NameWithLcState(call.q)
        /\ ~NameWithLcState(call.q)
             => /\ call.branch = OperationOf[FirstGroup(call.q)]
                /\ ret.status = "ok"
                /\ ret.val # None

\* the result is the one of the call with only the kept qualifiers
SameAsWith(kept) ==
    ret = find_resources_ext_qualified(store, Only(call.q, kept), Nil, Nil, FALSE, TRUE)

\* C29 as stated: find_resources_ext dispatches every call to exactly one find
\* operation by the priority name, keyword, alt_id / alt_id_ns, nested_type,
\* type + attr_name, type + lcstate, type, lcstate, none; it never falls
\* through without a result; more than one qualifier group raises BadRequest
\* only for name with lcstate, and every other extra qualifier is ignored:
\* the result is that of the call with the first group alone.
C29_ExtrasIgnored ==
    /\ DispatchedByPriority
    /\ (IsDispatch(call) /\ ~NameWithLcState(call.q))
         => SameAsWith(MembersOf[FirstGroup(call.q)])

\* C29, amended: as above, but the type is not ignored: a type given with a
\* name, a keyword or a nested type is the second component of the key of
\* the lookup and narrows the result; every other extra qualifier is ignored.
C29_ExtrasButTypeIgnored ==
    /\ DispatchedByPriority
    /\ (IsDispatch(call) /\ ~NameWithLcState(call.q))
         => SameAsWith(MembersOf[FirstGroup(call.q)]
                        \cup (IF FirstGroup(call.q) \in {1, 2, 4}
                              THEN {"restype"} ELSE {}))

\* a call with a name, a type and a keyword returned the resources of the
\* name and type, while a resource of the name and another type is stored
C29_Witness ==
    /\ IsDispatch(call)
    /\ call.q.name # Nil /\ call.q.restype # Nil /\ call.q.keyword # Nil
    /\ ret.status = "ok" /\ ret.val.objs # <<>>
    /\ \E id \in ExtIds : /\ Exists(store, id)
                           /\ store[id].name = call.q.name
                           /\ store[id].type_ # call.q.restype

=============================================================================
